---- MODULE Spec2Model ----
(***************************************************************************)
(* verdaccio-az-blob: the key-partitioned async mutex (async-lock used in  *)
(* callback mode), the locked() helper, the package index of AzStorage     *)
(* (get / add / remove over packages-list.json with its in-memory cache),  *)
(* its secret store (getSecret / setSecret), and the AzStorageHandler of   *)
(* one package: its manifest, its archives in unpacked mode, and the       *)
(* streams of readTarball / writeTarball in packed and in unpacked mode.   *)
(*                                                                         *)
(* JavaScript is single threaded: an action is one run-to-completion       *)
(* stretch of code, from an invocation or the resumption of an await up to *)
(* the next await that suspends at backend I/O.                            *)
(***************************************************************************)
EXTENDS Integers, Sequences, FiniteSets, TLC

\* ------------------------------------------------------------------ bounds
MaxCalls == 3
MaxHandlerCalls == 2
MaxArchiveCalls == 3

Calls == 1..MaxCalls
Names == {"a", "b"}
LockKeys == {"k1", "k2"}

\* ------------------------------------------------------------------ constants
PACKAGES_LIST_BLOB == "packages-list.json"
SECRET_BLOB == "secret"
StorageKeys == {PACKAGES_LIST_BLOB, SECRET_BLOB}

\* e.statusCode of a missing blob; the status codes of the other backend failures
NOT_FOUND == 404
OtherStatus == {500}

\* an error object: where it was raised, and its statusCode
Err(where, status) == <<where, status>>
NoErr == <<>>

\* a nullable value: string[] | null, or a blob that may not exist
None == [some |-> FALSE, val |-> <<>>]
Some(v) == [some |-> TRUE, val |-> v]

VARIABLES
    queues,        \* storage.ts: lock.queues, per key (held = the key is present)
    lockedQueues,  \* locked(): lock.queues of its own AsyncLock instance
    nsub,          \* number of calls made so far; calls are numbered in call order
    op,            \* per call: "none", "get", "add", "remove", "locked"
    arg,           \* per call: the package name, or the key of locked()
    pc,            \* per call: where its callback stands
    result,        \* per call: state of the promise handed to the caller
    value,         \* per call: the list the promise resolved with
    error,         \* per call: the error the promise rejected with, <<>> if none
    thrown,        \* per call: the error raised inside the callback, <<>> if none
    names,         \* per call: the local `packages` / `names` of the callback
    newPackages,   \* per call: the argument of updatePackages
    packages,      \* AzStorage.packages, the in-memory index cache
    blob,          \* content of the blob packages-list.json
    entered,       \* history: per key, the calls in the order they entered
    log,           \* history: the persisted index changes, in order
    downloads,     \* history: number of downloads of the index blob
    maxPending,    \* history: the most tasks that ever waited for one key
    preCache,      \* history, per call: the cache when its callback started
    preBlob,       \* history, per call: the blob when its callback started
    secret,        \* AzStorage.secret, the in-memory secret cache
    secretBlob,    \* content of the blob `secret`, as bytes
    backend,       \* history, per call: the backend calls its callback issued
    uploaded,      \* history: the secrets whose upload completed
    manifestBlob,  \* content of the blob <packageName>/package.json, as bytes
    param,         \* per call: the manifest or the handleUpdate passed in
    manifest,      \* per call: the local `manifest` that _readPackage() gave
    lastSaved,     \* history: the manifest of the latest upload that was stored
    store,         \* the blobs of the container, by blob name; archives only
    listing,       \* per call: the listed blob names its loop has yet to visit
    packed,        \* per call: the entries put into the pack stream of a read
    puts,          \* history, per call: the blob names a write uploaded, in order
    since,         \* history, per call: blob names uploaded since its listing
    unpacked,      \* AzStorageHandler.storeUnpacked of the handler that streams
    wired,         \* per call: the tunnel of a write has its destination attached
    signal,        \* per call: the AbortSignal passed in has fired
    destroyed,     \* per call: the stream handed to the caller is destroyed
    inflight,      \* per call: the blobs whose transfer is open at the backend
    opened,        \* per call: number of 'open' events emitted on its tunnel
    received,      \* per call: the caller's await has resumed with the stream
    logged,        \* per call: this.error(...) has logged a failure
    through,       \* per call: chunks the caller wrote into / read from the stream
    emitted,       \* per call: number of 'entry' events of the extract stream
    advanced       \* per call: number of next() calls of the 'entry' handler

lockVars == <<queues, lockedQueues>>
callVars == <<nsub, op, arg, pc, result, value, error, thrown, names, newPackages>>
indexVars == <<packages, blob>>
histVars == <<entered, log, downloads, maxPending, preCache, preBlob>>
secretVars == <<secret, secretBlob, backend, uploaded>>
manifestVars == <<manifestBlob, param, manifest, lastSaved>>
archiveVars == <<store, listing, packed, puts, since>>
streamVars == <<unpacked, wired, signal, destroyed, inflight, opened, received, logged,
                through, emitted, advanced>>
handlerVars == <<manifestVars, archiveVars, streamVars>>
extVars == <<secretVars, handlerVars>>
vars == <<lockVars, callVars, indexVars, histVars, extVars>>

\* ------------------------------------------------------------------ JSON
\* JSON.stringify of a string[]: the text as a sequence of tokens
Quote(n) == "\"" \o n \o "\""

RECURSIVE Items(_)
Items(list) ==
    IF list = <<>> THEN <<>>
    ELSE IF Len(list) = 1 THEN <<Quote(list[1])>>
    ELSE <<Quote(list[1]), ",">> \o Items(Tail(list))

Stringify(list) == <<"[">> \o Items(list) \o <<"]">>

Unquote(tok) == CHOOSE n \in Names : Quote(n) = tok

\* JSON.parse of such a text: the strings between the brackets, commas dropped
Parse(text) ==
    LET inner == SubSeq(text, 2, Len(text) - 1)
        strs == SelectSeq(inner, LAMBDA t : t # ",")
    IN  [i \in 1..Len(strs) |-> Unquote(strs[i])]

\* ------------------------------------------------------------------ strings and bytes
\* A string is a sequence of characters (its length is their number), a blob a
\* sequence of bytes. The characters outside ASCII, which UTF-8 encodes in
\* more than one byte:
Wide == {"U+00E9"}

Utf8Char(ch) == IF ch \in Wide THEN <<"0xC3", "0xA9">> ELSE <<ch>>

\* the UTF-8 bytes the client sends for a string body
RECURSIVE Utf8(_)
Utf8(text) ==
    IF text = <<>> THEN <<>> ELSE Utf8Char(Head(text)) \o Utf8(Tail(text))

\* buf.toString(): UTF-8 decoding; bytes that do not form a character give
\* the replacement character
RECURSIVE toString(_)
toString(bytes) ==
    IF bytes = <<>> THEN <<>>
    ELSE IF Len(bytes) >= 2 /\ SubSeq(bytes, 1, 2) = <<"0xC3", "0xA9">>
         THEN <<"U+00E9">> \o toString(Tail(Tail(bytes)))
    ELSE IF Head(bytes) \in {"0xC3", "0xA9"}
         THEN <<"U+FFFD">> \o toString(Tail(bytes))
    ELSE <<Head(bytes)>> \o toString(Tail(bytes))

\* upload(body, contentLength): the blob the service keeps is the first
\* contentLength bytes of the body
Stored(text, contentLength) == SubSeq(Utf8(text), 1, contentLength)

\* ------------------------------------------------------------------ arrays
\* packages.indexOf(name) !== -1
Includes(list, name) == \E i \in 1..Len(list) : list[i] = name

\* packages.filter(p => p !== name)
Without(list, name) == SelectSeq(list, LAMBDA p : p # name)

NoDup(list) == \A i, j \in 1..Len(list) : list[i] = list[j] => i = j

\* ------------------------------------------------------------------ AsyncLock
\* One AsyncLock instance is a map `queues`: a key is held iff it is present,
\* and its array holds the tasks waiting for it.
Free == [held |-> FALSE, tasks |-> <<>>]

\* faulty variant of Busy: the key is never seen as held
BusyNever(q, key) == FALSE

\* faulty variant of Busy: one lock for all keys, held while any key is held
BusyAny(q, key) == \E k \in DOMAIN q : q[k].held

\* !!self.queues[key]
Busy(q, key) == q[key].held

\* faulty variant of Push: self.queues[key].unshift(taskFn)
PushFront(tasks, c) == <<c>> \o tasks

\* self.queues[key].push(taskFn)
Push(tasks, c) == Append(tasks, c)

\* faulty variant of acquire: the call is not recorded, as in the draft without a lock
acquire_unlocked(q, key, c) == q

\* acquire(key, fn): a free key is taken and fn runs at once; else fn is queued
acquire(q, key, c) ==
    IF ~Busy(q, key)
    THEN [q EXCEPT ![key] = [held |-> TRUE, tasks |-> <<>>]]
    ELSE [q EXCEPT ![key].tasks = Push(@, c)]

\* the task that done() takes off the queue and runs, if any
Shifted(q, key) ==
    IF Busy(q, key) /\ q[key].tasks # <<>> THEN {Head(q[key].tasks)} ELSE {}

\* done(err, ret) of the callback: an empty queue frees the key, else the head
\* of the queue is shifted off and run
done(q, key) ==
    IF ~Busy(q, key) THEN q
    ELSE IF q[key].tasks = <<>> THEN [q EXCEPT ![key] = Free]
    ELSE [q EXCEPT ![key].tasks = Tail(@)]

Max(x, y) == IF x >= y THEN x ELSE y

\* history of entries into the critical section of a key
Enter(hist, key, started) ==
    IF started = {} THEN hist
    ELSE [hist EXCEPT ![key] = Append(@, CHOOSE c \in started : TRUE)]

\* ------------------------------------------------------------------ Init
InitLists == {<<>>} \cup {<<n>> : n \in Names}
             \cup ({<<n, m>> : n, m \in Names} \ {<<n, n>> : n \in Names})

AddEvents(list) == [i \in 1..Len(list) |-> <<"add", list[i]>>]

\* no call has been made, every key is free
InitCalls ==
    /\ queues = [k \in StorageKeys |-> Free]
    /\ lockedQueues = [k \in LockKeys |-> Free]
    /\ nsub = 0
    /\ op = [c \in Calls |-> "none"]
    /\ arg = [c \in Calls |-> ""]
    /\ pc = [c \in Calls |-> "idle"]
    /\ result = [c \in Calls |-> "pending"]
    /\ value = [c \in Calls |-> <<>>]
    /\ error = [c \in Calls |-> NoErr]
    /\ thrown = [c \in Calls |-> NoErr]
    /\ names = [c \in Calls |-> <<>>]
    /\ newPackages = [c \in Calls |-> <<>>]
    /\ entered = [k \in StorageKeys \cup LockKeys |-> <<>>]
    /\ maxPending = 0
    /\ preCache = [c \in Calls |-> None]
    /\ preBlob = [c \in Calls |-> None]
    /\ backend = [c \in Calls |-> <<>>]

\* a fresh AzStorage (`private secret = ''`) over a container without a secret
InitNoSecret ==
    /\ secret = <<>>
    /\ secretBlob = None
    /\ uploaded = {}

\* an AzStorageHandler of a package that has not been created
InitNoManifest ==
    /\ manifestBlob = None
    /\ param = [c \in Calls |-> None]
    /\ manifest = [c \in Calls |-> None]
    /\ lastSaved = None

\* no archive has been written
InitNoArchive ==
    /\ store = <<>>
    /\ listing = [c \in Calls |-> <<>>]
    /\ packed = [c \in Calls |-> <<>>]
    /\ puts = [c \in Calls |-> <<>>]
    /\ since = [c \in Calls |-> {}]

\* no archive is being streamed
InitNoStream ==
    /\ wired = [c \in Calls |-> FALSE]
    /\ signal = [c \in Calls |-> FALSE]
    /\ destroyed = [c \in Calls |-> FALSE]
    /\ inflight = [c \in Calls |-> {}]
    /\ opened = [c \in Calls |-> 0]
    /\ received = [c \in Calls |-> FALSE]
    /\ logged = [c \in Calls |-> FALSE]
    /\ through = [c \in Calls |-> 0]
    /\ emitted = [c \in Calls |-> 0]
    /\ advanced = [c \in Calls |-> 0]

InitExt ==
    /\ InitNoSecret
    /\ InitNoManifest
    /\ InitNoArchive
    /\ unpacked = TRUE
    /\ InitNoStream

\* a fresh AzStorage (`private packages = null`) over an index blob that is
\* missing or holds a list without duplicates
Init ==
    /\ InitCalls
    /\ packages = None
    /\ \E list \in InitLists, exists \in BOOLEAN :
          /\ exists \/ list = <<>>
          /\ blob = IF exists THEN Some(Stringify(list)) ELSE None
          /\ log = AddEvents(list)
    /\ downloads = 0
    /\ InitExt

\* ------------------------------------------------------------------ locked()
\* locked(key, cb): lock.acquire(key, async done => ...); the callback starts
\* with `await cb()`, which suspends at the backend I/O of cb
locked(key) ==
    /\ nsub < MaxCalls
    /\ LET c == nsub + 1
           now == ~Busy(lockedQueues, key)
       IN  /\ nsub' = c
           /\ op' = [op EXCEPT ![c] = "locked"]
           /\ arg' = [arg EXCEPT ![c] = key]
           /\ lockedQueues' = acquire(lockedQueues, key, c)
           /\ pc' = [pc EXCEPT ![c] = IF now THEN "cb" ELSE "queued"]
           /\ entered' = Enter(entered, key, IF now THEN {c} ELSE {})
           /\ maxPending' = Max(maxPending, Len(lockedQueues'[key].tasks))
    /\ UNCHANGED <<extVars, queues, result, value, error, thrown, names, newPackages,
                   indexVars, log, downloads, preCache, preBlob>>

\* cb() fulfils: done(); resolve(response)
cb_fulfilled(c) ==
    /\ op[c] = "locked" /\ pc[c] = "cb"
    /\ LET key == arg[c]
           started == Shifted(lockedQueues, key)
       IN  /\ lockedQueues' = done(lockedQueues, key)
           /\ pc' = [x \in Calls |-> IF x = c THEN "returned"
                                     ELSE IF x \in started THEN "cb" ELSE pc[x]]
           /\ entered' = Enter(entered, key, started)
    /\ result' = [result EXCEPT ![c] = "resolved"]
    /\ UNCHANGED <<extVars, queues, nsub, op, arg, value, error, thrown, names, newPackages,
                   indexVars, log, downloads, maxPending, preCache, preBlob>>

\* cb() rejects: `await cb()` throws inside the async callback, whose promise
\* nobody looks at; neither done() nor resolve() is reached
cb_rejected(c) ==
    /\ op[c] = "locked" /\ pc[c] = "cb"
    /\ \E e \in OtherStatus : thrown' = [thrown EXCEPT ![c] = Err("cb", e)]
    /\ pc' = [pc EXCEPT ![c] = "returned"]
    /\ UNCHANGED <<extVars, lockVars, nsub, op, arg, result, value, error, names, newPackages,
                   indexVars, histVars>>

NextLocked ==
    \/ \E key \in LockKeys : locked(key)
    \/ \E c \in Calls : cb_fulfilled(c)
    \/ \E c \in Calls : cb_rejected(c)

InitLocked == Init /\ blob = None

SpecLocked == InitLocked /\ [][NextLocked]_vars

\* ------------------------------------------------------------------ package index
\* faulty variant of StartPc: getPackages() without the cache test
StartPcNoCache(cache) == "downloading"

\* Where a callback of get/add/remove stands once it has run up to its first
\* await: getPackages() answers from the cache (`if (this.packages)`; an empty
\* array is truthy), or has issued the download of the blob
StartPc(cache) == IF cache.some THEN "gotPackages" ELSE "downloading"

\* lock.acquire(PACKAGES_LIST_BLOB, async done => ...) of get, add and remove
Invoke(kind, name) ==
    /\ nsub < MaxCalls
    /\ LET c == nsub + 1
           now == ~Busy(queues, PACKAGES_LIST_BLOB)
       IN  /\ nsub' = c
           /\ op' = [op EXCEPT ![c] = kind]
           /\ arg' = [arg EXCEPT ![c] = name]
           /\ queues' = acquire(queues, PACKAGES_LIST_BLOB, c)
           /\ pc' = [pc EXCEPT ![c] = IF now THEN StartPc(packages) ELSE "queued"]
           /\ names' = [names EXCEPT ![c] = IF now /\ packages.some
                                            THEN packages.val ELSE @]
           /\ entered' = Enter(entered, PACKAGES_LIST_BLOB, IF now THEN {c} ELSE {})
           /\ preCache' = [preCache EXCEPT ![c] = IF now THEN packages ELSE @]
           /\ preBlob' = [preBlob EXCEPT ![c] = IF now THEN blob ELSE @]
           /\ maxPending' = Max(maxPending, Len(queues'[PACKAGES_LIST_BLOB].tasks))
    /\ UNCHANGED <<extVars, lockedQueues, result, value, error, thrown, newPackages,
                   indexVars, log, downloads>>

get == Invoke("get", "")

add(name) == Invoke("add", name)

remove(name) == Invoke("remove", name)

\* done(err, ret) called by the callback of call c, with the cache as it then is:
\* the promise of c settles, the key is freed or handed to the next task, whose
\* callback runs up to its first await
Settle(c, res, val, err, cache) ==
    LET started == Shifted(queues, PACKAGES_LIST_BLOB)
    IN  /\ queues' = done(queues, PACKAGES_LIST_BLOB)
        /\ pc' = [x \in Calls |-> IF x = c THEN "returned"
                                  ELSE IF x \in started THEN StartPc(cache)
                                  ELSE pc[x]]
        /\ names' = [x \in Calls |-> IF x \in started /\ x # c /\ cache.some
                                     THEN cache.val ELSE names[x]]
        /\ result' = [result EXCEPT ![c] = res]
        /\ value' = [value EXCEPT ![c] = val]
        /\ error' = [error EXCEPT ![c] = err]
        /\ entered' = Enter(entered, PACKAGES_LIST_BLOB, started)
        /\ preCache' = [x \in Calls |-> IF x \in started /\ x # c
                                        THEN cache ELSE preCache[x]]
        /\ preBlob' = [x \in Calls |-> IF x \in started /\ x # c
                                       THEN blob ELSE preBlob[x]]
        /\ UNCHANGED maxPending

IndexCall(c) == op[c] \in {"get", "add", "remove"}

\* getPackages(): the download succeeds; the parsed list is cached and returned
getPackages_downloaded(c) ==
    /\ IndexCall(c) /\ pc[c] = "downloading"
    /\ blob.some
    /\ packages' = Some(Parse(blob.val))
    /\ names' = [names EXCEPT ![c] = Parse(blob.val)]
    /\ pc' = [pc EXCEPT ![c] = "gotPackages"]
    /\ downloads' = downloads + 1
    /\ UNCHANGED <<extVars, lockVars, nsub, op, arg, result, value, error, thrown, newPackages,
                   blob, entered, log, maxPending, preCache, preBlob>>

\* the status codes downloadToBuffer() can fail with: 404 iff the blob is missing
DownloadErrors(b) == (IF b.some THEN {} ELSE {NOT_FOUND}) \cup OtherStatus

\* the catch of getPackages(): if (e.statusCode === 404) return []
Swallowed(status) == status = NOT_FOUND

\* getPackages(): the blob does not exist; the catch gives [], which is not
\* cached
getPackages_notFound(c) ==
    /\ IndexCall(c) /\ pc[c] = "downloading"
    /\ \E e \in DownloadErrors(blob) : Swallowed(e)
    /\ names' = [names EXCEPT ![c] = <<>>]
    /\ pc' = [pc EXCEPT ![c] = "gotPackages"]
    /\ downloads' = downloads + 1
    /\ UNCHANGED <<extVars, lockVars, nsub, op, arg, result, value, error, thrown, newPackages,
                   indexVars, entered, log, maxPending, preCache, preBlob>>

\* getPackages(): the download fails otherwise; the error is rethrown, and the
\* catch of get/add/remove passes it to done(e)
getPackages_failed(c) ==
    /\ IndexCall(c) /\ pc[c] = "downloading"
    /\ \E e \in DownloadErrors(blob) :
          /\ ~Swallowed(e)
          /\ thrown' = [thrown EXCEPT ![c] = Err("download", e)]
          /\ Settle(c, "rejected", <<>>, Err("download", e), packages)
    /\ downloads' = downloads + 1
    /\ UNCHANGED <<extVars, lockedQueues, nsub, op, arg, newPackages, indexVars, log>>

\* get: done(null, names)
get_names(c) ==
    /\ op[c] = "get" /\ pc[c] = "gotPackages"
    /\ Settle(c, "resolved", names[c], NoErr, packages)
    /\ UNCHANGED <<extVars, lockedQueues, nsub, op, arg, thrown, newPackages, indexVars,
                   log, downloads>>

\* the callback suspends in updatePackages(list), at the upload of the new text
Suspend(c, list) ==
    /\ newPackages' = [newPackages EXCEPT ![c] = list]
    /\ pc' = [pc EXCEPT ![c] = "uploading"]
    /\ UNCHANGED <<extVars, lockVars, nsub, op, arg, result, value, error, thrown, names,
                   indexVars, histVars>>

\* faulty variant of Known: add without the membership test
KnownNever(list, name) == FALSE

\* packages.indexOf(name) !== -1 in add
Known(list, name) == Includes(list, name)

\* faulty variant of Appended: the name is put in front
Prepended(list, name) == <<name>> \o list

\* [...packages, name]
Appended(list, name) == Append(list, name)

\* add: a known name is done() at once, else updatePackages([...packages, name])
add_packages(c) ==
    /\ op[c] = "add" /\ pc[c] = "gotPackages"
    /\ IF Known(names[c], arg[c])
       THEN /\ Settle(c, "resolved", <<>>, NoErr, packages)
            /\ UNCHANGED <<extVars, lockedQueues, nsub, op, arg, thrown, newPackages,
                           indexVars, log, downloads>>
       ELSE Suspend(c, Appended(names[c], arg[c]))

\* faulty variant of Absent: remove without the membership test
AbsentNever(list, name) == FALSE

\* packages.indexOf(name) === -1 in remove
Absent(list, name) == ~Includes(list, name)

\* remove: an absent name is logged and the callback returns without done(),
\* else updatePackages(packages.filter(p => p !== name))
remove_packages(c) ==
    /\ op[c] = "remove" /\ pc[c] = "gotPackages"
    /\ IF Absent(names[c], arg[c])
       THEN /\ pc' = [pc EXCEPT ![c] = "returned"]
            /\ UNCHANGED <<extVars, lockVars, nsub, op, arg, result, value, error, thrown,
                           names, newPackages, indexVars, entered, log, downloads,
                           maxPending, preCache, preBlob>>
       ELSE Suspend(c, Without(names[c], arg[c]))

\* updatePackages(): the backend stores the uploaded text
updatePackages_uploaded(c) ==
    /\ IndexCall(c) /\ pc[c] = "uploading"
    /\ blob' = Some(Stringify(newPackages[c]))
    /\ pc' = [pc EXCEPT ![c] = "uploaded"]
    /\ log' = Append(log, <<op[c], arg[c]>>)
    /\ UNCHANGED <<extVars, lockVars, nsub, op, arg, result, value, error, thrown, names,
                   newPackages, packages, entered, downloads, maxPending, preCache,
                   preBlob>>

\* updatePackages(): the await of the upload resumes: this.packages = newPackages,
\* then done() in add/remove
updatePackages_resumed(c) ==
    /\ IndexCall(c) /\ pc[c] = "uploaded"
    /\ packages' = Some(newPackages[c])
    /\ Settle(c, "resolved", <<>>, NoErr, packages')
    /\ UNCHANGED <<extVars, lockedQueues, nsub, op, arg, thrown, newPackages, blob, log,
                   downloads>>

\* faulty variant of updatePackages_failed: this.packages = newPackages is done before
\* the upload is awaited, so a failed upload leaves the new list in the cache
updatePackages_failed_cached(c) ==
    /\ IndexCall(c) /\ pc[c] = "uploading"
    /\ packages' = Some(newPackages[c])
    /\ \E e \in OtherStatus :
          /\ thrown' = [thrown EXCEPT ![c] = Err("upload", e)]
          /\ Settle(c, "rejected", <<>>, Err("upload", e), packages')
    /\ UNCHANGED <<extVars, lockedQueues, nsub, op, arg, newPackages, blob, log, downloads>>

\* updatePackages(): the upload fails; the error is rethrown and the catch of
\* add/remove passes it to done(e)
updatePackages_failed(c) ==
    /\ IndexCall(c) /\ pc[c] = "uploading"
    /\ \E e \in OtherStatus :
          /\ thrown' = [thrown EXCEPT ![c] = Err("upload", e)]
          /\ Settle(c, "rejected", <<>>, Err("upload", e), packages)
    /\ UNCHANGED <<extVars, lockedQueues, nsub, op, arg, newPackages, indexVars, log,
                   downloads>>

Next ==
    \/ get
    \/ \E name \in Names : add(name)
    \/ \E name \in Names : remove(name)
    \/ \E c \in Calls : getPackages_downloaded(c)
    \/ \E c \in Calls : getPackages_notFound(c)
    \/ \E c \in Calls : getPackages_failed(c)
    \/ \E c \in Calls : get_names(c)
    \/ \E c \in Calls : add_packages(c)
    \/ \E c \in Calls : remove_packages(c)
    \/ \E c \in Calls : updatePackages_uploaded(c)
    \/ \E c \in Calls : updatePackages_resumed(c)
    \/ \E c \in Calls : updatePackages_failed(c)

Spec == Init /\ [][Next]_vars

\* ------------------------------------------------------------------ secret store
\* the secrets in use: hexadecimal strings, and the empty string
Secrets == {<<>>, <<"a">>, <<"b">>}

SecretCall(c) == op[c] \in {"getSecret", "setSecret"}

\* Where the callback of a secret call stands once it has run up to its first
\* await: setSecret awaits the upload; getSecret answers from a non-empty cache
\* with done(null, this.secret), else awaits secretClient.exists()
FirstAwait(kind, cache) ==
    IF kind = "setSecret" THEN "uploading"
    ELSE IF cache # <<>> THEN "returned" ELSE "exists"

\* the backend call issued on the way to that await
FirstCall(kind, cache) ==
    IF FirstAwait(kind, cache) = "returned" THEN <<>>
    ELSE IF kind = "setSecret" THEN <<"upload">> ELSE <<"exists">>

\* the waiting tasks that done() runs one after the other: each task that
\* ends in done() at once (a getSecret answered from the cache) makes done()
\* shift the next one; the last of them is the first that suspends, if any
RECURSIVE Chain(_, _)
Chain(tasks, cache) ==
    IF tasks = <<>> THEN <<>>
    ELSE IF FirstAwait(op[Head(tasks)], cache) = "returned"
         THEN <<Head(tasks)>> \o Chain(Tail(tasks), cache)
    ELSE <<Head(tasks)>>

Last(seq) == seq[Len(seq)]

Range(seq) == {seq[i] : i \in 1..Len(seq)}

\* the queue of the secret key after done() has run the tasks of `ran`
AfterChain(q, ran, cache) ==
    LET rest == SubSeq(q[SECRET_BLOB].tasks, Len(ran) + 1, Len(q[SECRET_BLOB].tasks))
        holds == ran # <<>> /\ FirstAwait(op'[Last(ran)], cache) # "returned"
    IN  [q EXCEPT ![SECRET_BLOB] = IF holds THEN [held |-> TRUE, tasks |-> rest]
                                   ELSE Free]

\* the callbacks of the calls in `ran` run up to their first await, with the
\* cache as it then is; call c, if any, ends with (res, val, err)
RunSecret(c, ended, ran, res, val, err, cache) ==
    /\ pc' = [x \in Calls |-> IF x \in ended THEN "returned"
                              ELSE IF x \in Range(ran) THEN FirstAwait(op'[x], cache)
                              ELSE pc[x]]
    /\ result' = [x \in Calls |->
                    IF x \in ended THEN res
                    ELSE IF x \in Range(ran) /\ FirstAwait(op'[x], cache) = "returned"
                         THEN "resolved"
                    ELSE result[x]]
    /\ value' = [x \in Calls |->
                    IF x \in ended THEN val
                    ELSE IF x \in Range(ran) /\ FirstAwait(op'[x], cache) = "returned"
                         THEN cache
                    ELSE value[x]]
    /\ error' = [x \in Calls |-> IF x \in ended THEN err ELSE error[x]]
    /\ backend' = [x \in Calls |-> IF x \in Range(ran)
                                   THEN FirstCall(op'[x], cache) ELSE backend[x]]
    /\ entered' = [entered EXCEPT ![SECRET_BLOB] = @ \o ran]
    /\ preCache' = [x \in Calls |-> IF x \in Range(ran) THEN Some(cache)
                                    ELSE preCache[x]]
    /\ preBlob' = [x \in Calls |-> IF x \in Range(ran) THEN secretBlob
                                   ELSE preBlob[x]]

\* lock.acquire(SECRET_BLOB, async done => ...) of getSecret and setSecret
InvokeSecret(kind, s) ==
    /\ nsub < MaxCalls
    /\ LET c == nsub + 1
           now == ~Busy(queues, SECRET_BLOB)
           ran == IF now THEN <<c>> ELSE <<>>
       IN  /\ nsub' = c
           /\ op' = [op EXCEPT ![c] = kind]
           /\ arg' = [arg EXCEPT ![c] = s]
           /\ queues' = IF now THEN AfterChain(queues, ran, secret)
                         ELSE acquire(queues, SECRET_BLOB, c)
           /\ RunSecret(c, {}, ran, "pending", <<>>, NoErr, secret)
           /\ maxPending' = Max(maxPending, Len(queues'[SECRET_BLOB].tasks))
    /\ UNCHANGED <<handlerVars, lockedQueues, thrown, names, newPackages, indexVars, log,
                   downloads, secret, secretBlob, uploaded>>

getSecret == InvokeSecret("getSecret", <<>>)

setSecret(s) == InvokeSecret("setSecret", s)

\* done(err, ret) called by the callback of secret call c
SettleSecret(c, res, val, err, cache) ==
    LET ran == Chain(queues[SECRET_BLOB].tasks, cache)
    IN  /\ UNCHANGED <<handlerVars, lockedQueues, nsub, op, arg, names, newPackages, indexVars,
                       log, downloads, maxPending>>
        /\ queues' = AfterChain(queues, ran, cache)
        /\ RunSecret(c, {c}, ran, res, val, err, cache)

\* the async callback of secret call c rejects: no try/catch passes the error
\* to done(e), so neither done() nor the promise of the caller is reached
ThrowSecret(c, e) ==
    /\ thrown' = [thrown EXCEPT ![c] = e]
    /\ pc' = [pc EXCEPT ![c] = "returned"]
    /\ UNCHANGED <<handlerVars, lockVars, nsub, op, arg, result, value, error, names,
                   newPackages, indexVars, histVars, secret, secretBlob, backend,
                   uploaded>>

\* getSecret: secretClient.exists() gives false; done(null, this.secret)
getSecret_absent(c) ==
    /\ op[c] = "getSecret" /\ pc[c] = "exists"
    /\ ~secretBlob.some
    /\ SettleSecret(c, "resolved", secret, NoErr, secret)
    /\ UNCHANGED <<thrown, secret, secretBlob, uploaded>>

\* getSecret: secretClient.exists() gives true; the download is awaited
getSecret_exists(c) ==
    /\ op[c] = "getSecret" /\ pc[c] = "exists"
    /\ secretBlob.some
    /\ pc' = [pc EXCEPT ![c] = "downloading"]
    /\ backend' = [backend EXCEPT ![c] = Append(@, "download")]
    /\ UNCHANGED <<handlerVars, lockVars, nsub, op, arg, result, value, error, thrown, names,
                   newPackages, indexVars, histVars, secret, secretBlob, uploaded>>

\* this.secret after the download in getSecret: nothing is assigned to it
Kept(cache, text) == cache

\* getSecret: the download succeeds; done(null, buf.toString())
getSecret_downloaded(c) ==
    /\ op[c] = "getSecret" /\ pc[c] = "downloading"
    /\ secretBlob.some
    /\ secret' = Kept(secret, toString(secretBlob.val))
    /\ SettleSecret(c, "resolved", toString(secretBlob.val), NoErr, secret')
    /\ UNCHANGED <<thrown, secretBlob, uploaded>>

\* getSecret: exists() or downloadToBuffer() fails
getSecret_failed(c) ==
    /\ op[c] = "getSecret" /\ pc[c] \in {"exists", "downloading"}
    /\ \E e \in OtherStatus :
          ThrowSecret(c, Err(IF pc[c] = "exists" THEN "exists" ELSE "download", e))

\* setSecret: secretClient.upload(secret, secret.length) is stored by the backend
setSecret_uploaded(c) ==
    /\ op[c] = "setSecret" /\ pc[c] = "uploading"
    /\ secretBlob' = Some(Stored(arg[c], Len(arg[c])))
    /\ uploaded' = uploaded \cup {arg[c]}
    /\ pc' = [pc EXCEPT ![c] = "uploaded"]
    /\ UNCHANGED <<handlerVars, lockVars, nsub, op, arg, result, value, error, thrown, names,
                   newPackages, indexVars, histVars, secret, backend>>

\* setSecret: the await of the upload resumes: this.secret = secret; done()
setSecret_resumed(c) ==
    /\ op[c] = "setSecret" /\ pc[c] = "uploaded"
    /\ secret' = arg[c]
    /\ SettleSecret(c, "resolved", <<>>, NoErr, secret')
    /\ UNCHANGED <<thrown, secretBlob, uploaded>>

\* faulty variant of setSecret_failed: this.secret = secret is done before the
\* upload is awaited, so a failed upload leaves the new secret in the cache
setSecret_failed_cached(c) ==
    /\ op[c] = "setSecret" /\ pc[c] = "uploading"
    /\ secret' = arg[c]
    /\ \E e \in OtherStatus : thrown' = [thrown EXCEPT ![c] = Err("upload", e)]
    /\ pc' = [pc EXCEPT ![c] = "returned"]
    /\ UNCHANGED <<handlerVars, lockVars, nsub, op, arg, result, value, error, names,
                   newPackages, indexVars, histVars, secretBlob, backend, uploaded>>

\* setSecret: the upload fails
setSecret_failed(c) ==
    /\ op[c] = "setSecret" /\ pc[c] = "uploading"
    /\ \E e \in OtherStatus : ThrowSecret(c, Err("upload", e))

NextSecret ==
    \/ getSecret
    \/ \E s \in Secrets : setSecret(s)
    \/ \E c \in Calls : getSecret_absent(c)
    \/ \E c \in Calls : getSecret_exists(c)
    \/ \E c \in Calls : getSecret_downloaded(c)
    \/ \E c \in Calls : getSecret_failed(c)
    \/ \E c \in Calls : setSecret_uploaded(c)
    \/ \E c \in Calls : setSecret_resumed(c)
    \/ \E c \in Calls : setSecret_failed(c)

\* a fresh AzStorage over a container whose secret blob is missing or holds
\* a secret stored earlier
InitSecret ==
    /\ InitCalls
    /\ packages = None /\ blob = None /\ log = <<>> /\ downloads = 0
    /\ secret = <<>>
    /\ \E s \in Secrets, exists \in BOOLEAN :
          /\ exists \/ s = <<>>
          /\ secretBlob = IF exists THEN Some(Utf8(s)) ELSE None
          /\ uploaded = IF exists THEN {s} ELSE {}
    /\ InitNoManifest
    /\ InitNoArchive
    /\ unpacked = TRUE
    /\ InitNoStream

SpecSecret == InitSecret /\ [][NextSecret]_vars

\* ------------------------------------------------------------------ manifest store
\* AzStorageHandler of one package; verdaccio passes the name of that package
packageName == <<"a">>

\* the manifests: a version and a description, which may hold a character
\* outside ASCII
Versions == {"1", "2"}
Texts == {<<"x">>, <<"U+00E9">>}
Manifests == {[version |-> v, description |-> t] : v \in Versions, t \in Texts}

\* JSON.stringify(manifest), as the characters of {"v":1,"d":"x"}; a property
\* name stands as one character
StringifyManifest(m) ==
    <<"{", "v", ":", m.version, ",", "d", ":", "\"">> \o m.description \o <<"\"", "}">>

\* JSON.parse(text) does not throw
IsJson(text) == \E m \in Manifests : StringifyManifest(m) = text

\* JSON.parse(text)
ParseManifest(text) == CHOOSE m \in Manifests : StringifyManifest(m) = text

\* the SyntaxError of JSON.parse: an error without statusCode
SyntaxError == <<"parse">>

\* the handleUpdate functions passed to updatePackage
Transforms == {"bump", "describe"}

\* handleUpdate(manifest), when it fulfils
Apply(t, m) ==
    IF t = "bump" THEN [m EXCEPT !.version = "2"]
    ELSE [m EXCEPT !.description = <<"x">>]

ManifestKinds == {"hasPackage", "createPackage", "savePackage", "readPackage",
                  "updatePackage"}

ManifestCall(c) == op[c] \in ManifestKinds

\* where a handler method stands at its first await
FirstStep(kind) ==
    IF kind = "hasPackage" THEN "exists"
    ELSE IF kind \in {"createPackage", "savePackage"} THEN "uploading"
    ELSE "downloading"

\* a handler method is called and runs up to its first await
InvokeHandler(kind, name, p) ==
    /\ nsub < MaxHandlerCalls
    /\ LET c == nsub + 1
       IN  /\ nsub' = c
           /\ op' = [op EXCEPT ![c] = kind]
           /\ arg' = [arg EXCEPT ![c] = name]
           /\ param' = [param EXCEPT ![c] = p]
           /\ pc' = [pc EXCEPT ![c] = FirstStep(kind)]
    /\ UNCHANGED <<lockVars, result, value, error, thrown, names, newPackages,
                   indexVars, histVars, secretVars, manifestBlob, manifest,
                   lastSaved, archiveVars, streamVars>>

hasPackage == InvokeHandler("hasPackage", packageName, None)

createPackage(name, m) == InvokeHandler("createPackage", name, Some(m))

savePackage(name, m) == InvokeHandler("savePackage", name, Some(m))

readPackage(name) == InvokeHandler("readPackage", name, None)

updatePackage(name, handleUpdate) == InvokeHandler("updatePackage", name, Some(handleUpdate))

\* the promise of handler call c settles
Return(c, res, val, raised, err) ==
    /\ pc' = [pc EXCEPT ![c] = "returned"]
    /\ result' = [result EXCEPT ![c] = res]
    /\ value' = [value EXCEPT ![c] = val]
    /\ thrown' = [thrown EXCEPT ![c] = raised]
    /\ error' = [error EXCEPT ![c] = err]
    /\ UNCHANGED <<lockVars, nsub, op, arg, names, newPackages, indexVars,
                   entered, log, downloads, maxPending, preCache, secretVars, param,
                   archiveVars, streamVars>>

\* hasPackage: manifestBlobClient.exists() answers
hasPackage_answered(c) ==
    /\ op[c] = "hasPackage" /\ pc[c] = "exists"
    /\ Return(c, "resolved", manifestBlob.some, NoErr, NoErr)
    /\ UNCHANGED <<manifestBlob, manifest, lastSaved, preBlob>>

\* hasPackage: manifestBlobClient.exists() fails
hasPackage_failed(c) ==
    /\ op[c] = "hasPackage" /\ pc[c] = "exists"
    /\ \E e \in OtherStatus :
          Return(c, "rejected", <<>>, Err("exists", e), Err("exists", e))
    /\ UNCHANGED <<manifestBlob, manifest, lastSaved, preBlob>>

SaveCall(c) == op[c] \in {"createPackage", "savePackage"}

\* savePackage: manifestBlobClient.upload(content, content.length, {}) is
\* stored by the backend
savePackage_uploaded(c) ==
    /\ SaveCall(c) /\ pc[c] = "uploading"
    /\ LET content == StringifyManifest(param[c].val)
       IN  manifestBlob' = Some(Stored(content, Len(content)))
    /\ lastSaved' = param[c]
    /\ pc' = [pc EXCEPT ![c] = "uploaded"]
    /\ UNCHANGED <<lockVars, nsub, op, arg, result, value, error, thrown, names,
                   newPackages, indexVars, histVars, secretVars, param, manifest,
                   archiveVars, streamVars>>

\* savePackage: the await of the upload resumes; the method returns
savePackage_resumed(c) ==
    /\ SaveCall(c) /\ pc[c] = "uploaded"
    /\ Return(c, "resolved", <<>>, NoErr, NoErr)
    /\ UNCHANGED <<manifestBlob, manifest, lastSaved, preBlob>>

\* savePackage: the upload fails; the catch logs and rethrows
savePackage_failed(c) ==
    /\ SaveCall(c) /\ pc[c] = "uploading"
    /\ \E e \in OtherStatus :
          Return(c, "rejected", <<>>, Err("upload", e), Err("upload", e))
    /\ UNCHANGED <<manifestBlob, manifest, lastSaved, preBlob>>

\* _readPackage() fulfils: the download succeeds and the text parses
Readable(b) == b.some /\ IsJson(toString(b.val))

\* the errors _readPackage() can raise: a failed download, or the SyntaxError
\* of JSON.parse
ReadErrors(b) ==
    {Err("download", e) : e \in DownloadErrors(b)}
        \cup (IF b.some /\ ~IsJson(toString(b.val)) THEN {SyntaxError} ELSE {})

\* faulty variant of IsNotFound: every error is taken for a missing blob
IsNotFoundAlways(e) == TRUE

\* e.statusCode === 404
IsNotFound(e) == Len(e) >= 2 /\ e[2] = NOT_FOUND

\* e.code = 404
WithCode(e) == Append(e, NOT_FOUND)

\* the catch of readPackage: a 404 error gets e.code = 404; it is rethrown
Rethrown(e) == IF IsNotFound(e) THEN WithCode(e) ELSE e

\* readPackage: _readPackage() fulfils; return manifest
readPackage_read(c) ==
    /\ op[c] = "readPackage" /\ pc[c] = "downloading"
    /\ Readable(manifestBlob)
    /\ manifest' = [manifest EXCEPT ![c] = Some(ParseManifest(toString(manifestBlob.val)))]
    /\ preBlob' = [preBlob EXCEPT ![c] = manifestBlob]
    /\ Return(c, "resolved", manifest'[c].val, NoErr, NoErr)
    /\ UNCHANGED <<manifestBlob, lastSaved>>

\* readPackage: _readPackage() rejects
readPackage_failed(c) ==
    /\ op[c] = "readPackage" /\ pc[c] = "downloading"
    /\ \E e \in ReadErrors(manifestBlob) : Return(c, "rejected", <<>>, e, Rethrown(e))
    /\ preBlob' = [preBlob EXCEPT ![c] = manifestBlob]
    /\ UNCHANGED <<manifestBlob, manifest, lastSaved>>

\* updatePackage: _readPackage() fulfils; handleUpdate(manifest) is awaited
updatePackage_read(c) ==
    /\ op[c] = "updatePackage" /\ pc[c] = "downloading"
    /\ Readable(manifestBlob)
    /\ manifest' = [manifest EXCEPT ![c] = Some(ParseManifest(toString(manifestBlob.val)))]
    /\ preBlob' = [preBlob EXCEPT ![c] = manifestBlob]
    /\ pc' = [pc EXCEPT ![c] = "transforming"]
    /\ UNCHANGED <<lockVars, nsub, op, arg, result, value, error, thrown, names,
                   newPackages, indexVars, entered, log, downloads, maxPending,
                   preCache, secretVars, manifestBlob, param, lastSaved,
                   archiveVars, streamVars>>

\* updatePackage: _readPackage() rejects; the catch logs and rethrows
updatePackage_readFailed(c) ==
    /\ op[c] = "updatePackage" /\ pc[c] = "downloading"
    /\ \E e \in ReadErrors(manifestBlob) : Return(c, "rejected", <<>>, e, e)
    /\ preBlob' = [preBlob EXCEPT ![c] = manifestBlob]
    /\ UNCHANGED <<manifestBlob, manifest, lastSaved>>

\* faulty variant of Unsaved: updatePackage uploads the updated manifest
SavedToo(b, updated) ==
    Some(Stored(StringifyManifest(updated), Len(StringifyManifest(updated))))

\* the manifest blob after updatePackage: the method uploads nothing
Unsaved(b, updated) == b

\* updatePackage: handleUpdate(manifest) fulfils; return updatedManifest
handleUpdate_fulfilled(c) ==
    /\ op[c] = "updatePackage" /\ pc[c] = "transforming"
    /\ LET updatedManifest == Apply(param[c].val, manifest[c].val)
       IN  /\ Return(c, "resolved", updatedManifest, NoErr, NoErr)
           /\ manifestBlob' = Unsaved(manifestBlob, updatedManifest)
    /\ UNCHANGED <<manifest, lastSaved, preBlob>>

\* updatePackage: handleUpdate(manifest) rejects; the catch logs and rethrows
handleUpdate_rejected(c) ==
    /\ op[c] = "updatePackage" /\ pc[c] = "transforming"
    /\ \E e \in OtherStatus :
          Return(c, "rejected", <<>>, Err("handleUpdate", e), Err("handleUpdate", e))
    /\ UNCHANGED <<manifestBlob, manifest, lastSaved, preBlob>>

NextManifest ==
    \/ hasPackage
    \/ \E m \in Manifests : createPackage(packageName, m)
    \/ \E m \in Manifests : savePackage(packageName, m)
    \/ readPackage(packageName)
    \/ \E t \in Transforms : updatePackage(packageName, t)
    \/ \E c \in Calls : hasPackage_answered(c)
    \/ \E c \in Calls : hasPackage_failed(c)
    \/ \E c \in Calls : savePackage_uploaded(c)
    \/ \E c \in Calls : savePackage_resumed(c)
    \/ \E c \in Calls : savePackage_failed(c)
    \/ \E c \in Calls : readPackage_read(c)
    \/ \E c \in Calls : readPackage_failed(c)
    \/ \E c \in Calls : updatePackage_read(c)
    \/ \E c \in Calls : updatePackage_readFailed(c)
    \/ \E c \in Calls : handleUpdate_fulfilled(c)
    \/ \E c \in Calls : handleUpdate_rejected(c)

\* the handler of a package that has not been created, or whose manifest was
\* saved by an earlier savePackage
InitManifest ==
    /\ InitCalls
    /\ packages = None /\ blob = None /\ log = <<>> /\ downloads = 0
    /\ InitNoSecret
    /\ param = [c \in Calls |-> None]
    /\ manifest = [c \in Calls |-> None]
    /\ \E saved \in {None} \cup {Some(m) : m \in Manifests} :
          /\ lastSaved = saved
          /\ manifestBlob =
                IF saved.some
                THEN Some(Stored(StringifyManifest(saved.val),
                                 Len(StringifyManifest(saved.val))))
                ELSE None
    /\ InitNoArchive
    /\ unpacked = TRUE
    /\ InitNoStream

SpecManifest == InitManifest /\ [][NextManifest]_vars

\* ------------------------------------------------------------------ archives, unpacked
\* the handler is created with storeUnpacked set
storeUnpacked == TRUE

Tgz == <<".", "t", "g", "z">>

\* the archive file names a-1.1.tgz, a-1.1-b.tgz and a-2.0-b.tgz: a release
\* and two pre-releases of the package
ArchiveNames ==
    { <<"a", "-", "1", ".", "1">> \o Tgz,
      <<"a", "-", "1", ".", "1", "-", "b">> \o Tgz,
      <<"a", "-", "2", ".", "0", "-", "b">> \o Tgz }

\* an archive: its entries in the order the tar stream delivers them
Entry(n, b) == [name |-> n, bytes |-> b]

Archives ==
    { <<Entry(<<"x">>, <<"0">>)>>,
      <<Entry(<<"x">>, <<"1">>), Entry(<<"y">>, <<"0">>)>> }

\* name.endsWith('.tgz')
EndsWithTgz(name) ==
    Len(name) >= Len(Tgz) /\ SubSeq(name, Len(name) - Len(Tgz) + 1, Len(name)) = Tgz

\* tarballName.split('-').pop(): what follows the last '-'
Pop(name) ==
    LET dashes == {i \in 1..Len(name) : name[i] = "-"}
        last == IF dashes = {} THEN 0
                ELSE CHOOSE i \in dashes : \A j \in dashes : j <= i
    IN  SubSeq(name, last + 1, Len(name))

\* tarballName.split('-').pop()!.slice(0, -4)
getDirName(tarballName) ==
    SubSeq(Pop(tarballName), 1, Len(Pop(tarballName)) - Len(Tgz))

\* `${this.packageName}/${name}`
getPath(name) == packageName \o <<"/">> \o name

\* the blob name of an entry: this.getPath(`${dirName}/${ name }`)
EntryPath(tarballName, name) ==
    getPath(getDirName(tarballName) \o <<"/">> \o name)

\* prefix = this.getPath(dirName)
Prefix(tarballName) == getPath(getDirName(tarballName))

StartsWith(name, prefix) ==
    Len(prefix) <= Len(name) /\ SubSeq(name, 1, Len(prefix)) = prefix

\* name.slice(prefix.length)
Slice(name, from) == SubSeq(name, from + 1, Len(name))

\* containerClient.listBlobsFlat({ prefix }): the blob names with the prefix
Listed(blobs, prefix) == {k \in DOMAIN blobs : StartsWith(k, prefix)}

\* the orders in which a listing may deliver these names
Orders(keys) ==
    {seq \in [1..Cardinality(keys) -> keys] : Range(seq) = keys}

\* client.uploadStream(stream, ...) of the blob `key`
Put(blobs, key, bytes) ==
    [k \in DOMAIN blobs \cup {key} |-> IF k = key THEN bytes ELSE blobs[k]]

\* faulty variant of Deleted: the blob stays
Undeleted(blobs, key) == blobs

\* containerClient.deleteBlob(path, ...)
Deleted(blobs, key) == [k \in DOMAIN blobs \ {key} |-> blobs[k]]

ArchiveKinds == {"writeTarball", "hasTarball", "deletePackage", "readTarball"}

\* writeTarball, hasTarball, deletePackage or readTarball is called and runs
\* up to its first await; writeUnpackedTarball returns the tunnel at once
InvokeArchive(kind, name, p) ==
    /\ nsub < MaxArchiveCalls
    /\ LET c == nsub + 1
       IN  /\ nsub' = c
           /\ op' = [op EXCEPT ![c] = kind]
           /\ arg' = [arg EXCEPT ![c] = name]
           /\ param' = [param EXCEPT ![c] = p]
           /\ IF kind = "writeTarball"
              THEN /\ pc' = [pc EXCEPT ![c] = "writing"]
                   /\ result' = [result EXCEPT ![c] = "resolved"]
                   /\ UNCHANGED listing
              ELSE IF kind = "deletePackage" /\ (~storeUnpacked \/ ~EndsWithTgz(name))
              THEN /\ pc' = [pc EXCEPT ![c] = "deleting"]
                   /\ listing' = [listing EXCEPT ![c] = <<getPath(name)>>]
                   /\ UNCHANGED result
              ELSE /\ pc' = [pc EXCEPT ![c] = "listing"]
                   /\ UNCHANGED <<result, listing>>
    /\ UNCHANGED <<lockVars, value, error, thrown, names, newPackages, indexVars,
                   histVars, secretVars, manifestBlob, manifest, lastSaved, store,
                   packed, puts, since, streamVars>>

writeTarball(name, archive) == InvokeArchive("writeTarball", name, Some(archive))

hasTarball(name) == InvokeArchive("hasTarball", name, None)

deletePackage(name) == InvokeArchive("deletePackage", name, None)

readTarball(name) == InvokeArchive("readTarball", name, None)

\* the variables no step of an archive call after its invocation changes
ArchiveFrame ==
    UNCHANGED <<lockVars, nsub, op, arg, names, newPackages, indexVars, histVars,
                secretVars, manifestVars, streamVars>>

\* the promise of archive call c settles
ArchiveReturn(c, res, val, err) ==
    /\ pc' = [pc EXCEPT ![c] = "returned"]
    /\ result' = [result EXCEPT ![c] = res]
    /\ value' = [value EXCEPT ![c] = val]
    /\ thrown' = [thrown EXCEPT ![c] = err]
    /\ error' = [error EXCEPT ![c] = err]

\* writeUnpackedTarball, 'entry' handler: client.uploadStream(stream, ...) of
\* the next entry is stored; next()
entry_uploaded(c) ==
    /\ op[c] = "writeTarball" /\ pc[c] = "writing"
    /\ LET archive == param[c].val
           entry == archive[Len(puts[c]) + 1]
           key == EntryPath(arg[c], entry.name)
       IN  /\ store' = Put(store, key, entry.bytes)
           /\ puts' = [puts EXCEPT ![c] = Append(@, key)]
           /\ since' = [d \in Calls |->
                           IF op[d] = "deletePackage" /\ pc[d] = "deleting"
                           THEN since[d] \cup {key} ELSE since[d]]
           /\ pc' = [pc EXCEPT ![c] = IF Len(puts'[c]) = Len(archive)
                                       THEN "returned" ELSE "writing"]
    /\ ArchiveFrame
    /\ UNCHANGED <<result, value, error, thrown, listing, packed>>

\* writeUnpackedTarball, 'entry' handler: uploadStream rejects inside the async
\* handler; next() is not reached and the extract stream delivers nothing more
entry_failed(c) ==
    /\ op[c] = "writeTarball" /\ pc[c] = "writing"
    /\ \E e \in OtherStatus : thrown' = [thrown EXCEPT ![c] = Err("upload", e)]
    /\ pc' = [pc EXCEPT ![c] = "stalled"]
    /\ ArchiveFrame
    /\ UNCHANGED <<result, value, error, archiveVars>>

\* hasUnpackedTarball: the first page of the listing (maxPageSize 1) arrives
hasTarball_answered(c) ==
    /\ op[c] = "hasTarball" /\ pc[c] = "listing"
    /\ ArchiveReturn(c, "resolved", Listed(store, Prefix(arg[c])) # {}, NoErr)
    /\ ArchiveFrame
    /\ UNCHANGED archiveVars

\* a listing or a download fails and the method rejects with that error
archive_failed(c) ==
    /\ op[c] \in {"hasTarball", "deletePackage", "readTarball"}
    /\ pc[c] \in {"listing", "deleting", "downloading"}
    /\ \E e \in OtherStatus : ArchiveReturn(c, "rejected", <<>>, Err(pc[c], e))
    /\ ArchiveFrame
    /\ UNCHANGED archiveVars

\* deletePackage: listBlobsFlat({ prefix }) delivers the blob names
deletePackage_listed(c) ==
    /\ op[c] = "deletePackage" /\ pc[c] = "listing"
    /\ \E order \in Orders(Listed(store, Prefix(arg[c]))) :
          /\ listing' = [listing EXCEPT ![c] = order]
          /\ IF order = <<>>
             THEN ArchiveReturn(c, "resolved", <<>>, NoErr)
             ELSE /\ pc' = [pc EXCEPT ![c] = "deleting"]
                  /\ UNCHANGED <<result, value, error, thrown>>
    /\ ArchiveFrame
    /\ UNCHANGED <<store, packed, puts, since>>

\* deletePackage: await deleteBlob(name) of the next listed blob; a blob that
\* is gone makes deleteBlob reject with status 404
deletePackage_deleted(c) ==
    /\ op[c] = "deletePackage" /\ pc[c] = "deleting"
    /\ LET key == Head(listing[c])
       IN  IF key \in DOMAIN store
           THEN /\ store' = Deleted(store, key)
                /\ listing' = [listing EXCEPT ![c] = Tail(@)]
                /\ IF Tail(listing[c]) = <<>>
                   THEN ArchiveReturn(c, "resolved", <<>>, NoErr)
                   ELSE UNCHANGED <<pc, result, value, error, thrown>>
           ELSE /\ ArchiveReturn(c, "rejected", <<>>, Err("delete", NOT_FOUND))
                /\ UNCHANGED <<store, listing>>
    /\ ArchiveFrame
    /\ UNCHANGED <<packed, puts, since>>

\* readUnpackedTarbal: listBlobsFlat({ prefix }) delivers the blob names; with
\* none, packed.finalize() and the stream of an empty archive is returned
readTarball_listed(c) ==
    /\ op[c] = "readTarball" /\ pc[c] = "listing"
    /\ \E order \in Orders(Listed(store, Prefix(arg[c]))) :
          /\ listing' = [listing EXCEPT ![c] = order]
          /\ IF order = <<>>
             THEN ArchiveReturn(c, "resolved", <<>>, NoErr)
             ELSE /\ pc' = [pc EXCEPT ![c] = "downloading"]
                  /\ UNCHANGED <<result, value, error, thrown>>
    /\ ArchiveFrame
    /\ UNCHANGED <<store, packed, puts, since>>

\* the blob the read downloads for a listed name: this.getPath(name)
DownloadPath(name) == getPath(name)

\* readUnpackedTarbal: client.download() of the next listed blob answers. A
\* blob that does not exist gives status 404, which the catch rethrows; else
\* an entry named name.slice(prefix.length) is opened, and entry.end() closes
\* it before the piped blob has delivered a byte
readTarball_downloaded(c) ==
    /\ op[c] = "readTarball" /\ pc[c] = "downloading"
    /\ LET name == Head(listing[c])
           key == DownloadPath(name)
           inPackageName == Slice(name, Len(Prefix(arg[c])))
       IN  IF key \in DOMAIN store
           THEN /\ packed' = [packed EXCEPT ![c] = Append(@, Entry(inPackageName, <<>>))]
                /\ listing' = [listing EXCEPT ![c] = Tail(@)]
                /\ IF Tail(listing[c]) = <<>>
                   THEN ArchiveReturn(c, "resolved", packed'[c], NoErr)
                   ELSE UNCHANGED <<pc, result, value, error, thrown>>
           ELSE /\ ArchiveReturn(c, "rejected", <<>>, Err("download", NOT_FOUND))
                /\ UNCHANGED <<packed, listing>>
    /\ ArchiveFrame
    /\ UNCHANGED <<store, puts, since>>

NextArchive ==
    \/ \E name \in ArchiveNames, archive \in Archives : writeTarball(name, archive)
    \/ \E name \in ArchiveNames : hasTarball(name)
    \/ \E name \in ArchiveNames : deletePackage(name)
    \/ \E name \in ArchiveNames : readTarball(name)
    \/ \E c \in Calls : entry_uploaded(c)
    \/ \E c \in Calls : entry_failed(c)
    \/ \E c \in Calls : hasTarball_answered(c)
    \/ \E c \in Calls : archive_failed(c)
    \/ \E c \in Calls : deletePackage_listed(c)
    \/ \E c \in Calls : deletePackage_deleted(c)
    \/ \E c \in Calls : readTarball_listed(c)
    \/ \E c \in Calls : readTarball_downloaded(c)

\* the handler of a package without archives
InitArchive ==
    /\ InitCalls
    /\ packages = None /\ blob = None /\ log = <<>> /\ downloads = 0
    /\ InitNoSecret
    /\ InitNoManifest
    /\ InitNoArchive
    /\ unpacked = TRUE
    /\ InitNoStream

SpecArchive == InitArchive /\ [][NextArchive]_vars

\* ------------------------------------------------------------------ archives, streams
\* readTarball and writeTarball step by step, in packed and in unpacked mode:
\* the tunnel and its 'open' event, the caller writing into or reading from
\* the stream it was handed, the transfers at the backend, and the AbortSignal.
MaxStreamCalls == 2

\* the archive that is read and written
StreamedNames == { <<"a", "-", "1", ".", "1">> \o Tgz }

\* a-0-a.tgz, an archive whose directory name is the package name
Nested == <<"a", "-", "0", "-", "a">> \o Tgz

\* the bytes of an archive stored as one blob
RECURSIVE Tar(_)
Tar(archive) ==
    IF archive = <<>> THEN <<>>
    ELSE Head(archive).name \o Head(archive).bytes \o Tar(Tail(archive))

\* the blobs the container holds when the handler is created: none, or those
\* of earlier writes. In unpacked mode a-1.1.tgz was written with the file x
\* and a-0-a.tgz with the file 1.1/x; in packed mode a-1.1.tgz was written
InitStores(unp) ==
    IF unp
    THEN { <<>>,
           Put(Put(<<>>, EntryPath(<<"a", "-", "1", ".", "1">> \o Tgz, <<"x">>), <<"0">>),
               EntryPath(Nested, <<"1", ".", "1", "/", "x">>), <<"1">>) }
    ELSE { <<>>,
           Put(<<>>, getPath(<<"a", "-", "1", ".", "1">> \o Tgz),
               Tar(<<Entry(<<"x">>, <<"0">>)>>)) }

\* faulty variant of Deferred: tunnel.emit('open') is called in place
EmittedAtOnce(n) == n + 1

\* process.nextTick(() => tunnel.emit('open')): the number of 'open' events
\* when the method returns; the callback has not run yet
Deferred(n) == n

\* faulty variant of Advanced: next() is called before the upload is awaited
AdvancedEarly(n, at) == IF at = "entry" THEN n + 1 ELSE n

\* the number of next() calls once the 'entry' handler has passed `at`: next()
\* follows `await client.uploadStream(...)`
Advanced(n, at) == IF at = "uploaded" THEN n + 1 ELSE n

\* whether the method registers an abort listener that destroys the stream it
\* returns: signal.onabort = () => tunnel.destroy() in both writes,
\* signal.addEventListener('abort', () => readable.destroy()) in the packed
\* read, nothing in the unpacked read
DestroysOnAbort(kind, unp) == kind = "writeTarball" \/ ~unp

\* the variables no step of a streaming call changes after its invocation
StreamFrame ==
    UNCHANGED <<lockVars, nsub, op, arg, names, newPackages, indexVars, histVars,
                secretVars, manifestVars, since, unpacked>>

\* readTarball or writeTarball is called and runs up to its first await.
\* A write runs to its end: the tunnel is created, the abort listener set,
\* the destination attached (the upload issued, or the gunzip and extract
\* streams piped), the 'open' event scheduled and the tunnel returned
InvokeStream(kind, name, p) ==
    /\ nsub < MaxStreamCalls
    /\ LET c == nsub + 1
       IN  /\ nsub' = c
           /\ op' = [op EXCEPT ![c] = kind]
           /\ arg' = [arg EXCEPT ![c] = name]
           /\ param' = [param EXCEPT ![c] = p]
           /\ IF kind = "writeTarball"
              THEN /\ pc' = [pc EXCEPT ![c] = "tick"]
                   /\ result' = [result EXCEPT ![c] = "resolved"]
                   /\ wired' = [wired EXCEPT ![c] = TRUE]
                   /\ opened' = [opened EXCEPT ![c] = Deferred(@)]
                   /\ inflight' = [inflight EXCEPT ![c] =
                                      IF unpacked THEN {} ELSE {getPath(name)}]
              ELSE /\ pc' = [pc EXCEPT ![c] = IF unpacked THEN "listing" ELSE "downloading"]
                   /\ inflight' = [inflight EXCEPT ![c] =
                                      IF unpacked THEN {} ELSE {getPath(name)}]
                   /\ UNCHANGED <<result, wired, opened>>
    /\ UNCHANGED <<lockVars, value, error, thrown, names, newPackages, indexVars,
                   histVars, secretVars, manifestBlob, manifest, lastSaved,
                   archiveVars, unpacked, signal, destroyed, received, logged,
                   through, emitted, advanced>>

writePackedTarball(name, archive) ==
    ~unpacked /\ InvokeStream("writeTarball", name, Some(archive))

writeUnpackedTarball(tarballName, archive) ==
    unpacked /\ InvokeStream("writeTarball", tarballName, Some(archive))

readPackedTarbal(name) == ~unpacked /\ InvokeStream("readTarball", name, None)

readUnpackedTarbal(tarballName) ==
    unpacked /\ InvokeStream("readTarball", tarballName, None)

\* the callback of process.nextTick runs: tunnel.emit('open')
open_emitted(c) ==
    /\ op[c] = "writeTarball" /\ pc[c] = "tick"
    /\ opened' = [opened EXCEPT ![c] = @ + 1]
    /\ pc' = [pc EXCEPT ![c] = "writing"]
    /\ StreamFrame
    /\ UNCHANGED <<result, value, error, thrown, param, archiveVars, wired, signal,
                   destroyed, inflight, received, logged, through, emitted, advanced>>

\* the await of the caller resumes with the stream the call resolved with: in
\* a promise job, which runs before the nextTick callback when the call was
\* made from a promise job, and after it otherwise
stream_received(c) ==
    /\ op[c] \in {"writeTarball", "readTarball"}
    /\ result[c] = "resolved" /\ ~received[c]
    /\ received' = [received EXCEPT ![c] = TRUE]
    /\ StreamFrame
    /\ UNCHANGED <<pc, result, value, error, thrown, param, archiveVars, wired, signal,
                   destroyed, inflight, opened, logged, through, emitted, advanced>>

\* the caller writes the next file of the archive into the tunnel, and ends
\* the tunnel after the last
tunnel_written(c) ==
    /\ op[c] = "writeTarball" /\ received[c] /\ ~destroyed[c]
    /\ through[c] < Len(param[c].val)
    /\ through' = [through EXCEPT ![c] = @ + 1]
    /\ StreamFrame
    /\ UNCHANGED <<pc, result, value, error, thrown, param, archiveVars, wired, signal,
                   destroyed, inflight, opened, received, logged, emitted, advanced>>

\* writePackedTarball: client.uploadStream(tunnel, ...) has read the tunnel to
\* its end and the blob is stored; nobody awaits its promise
upload_stored(c) ==
    /\ ~unpacked /\ op[c] = "writeTarball" /\ pc[c] = "writing"
    /\ inflight[c] # {} /\ through[c] = Len(param[c].val)
    /\ store' = Put(store, getPath(arg[c]), Tar(param[c].val))
    /\ puts' = [puts EXCEPT ![c] = Append(@, getPath(arg[c]))]
    /\ inflight' = [inflight EXCEPT ![c] = {}]
    /\ pc' = [pc EXCEPT ![c] = "stored"]
    /\ StreamFrame
    /\ UNCHANGED <<result, value, error, thrown, param, listing, packed, wired, signal,
                   destroyed, opened, received, logged, through, emitted, advanced>>

\* a write: the upload in flight fails. In writePackedTarball the promise of
\* uploadStream is neither awaited nor caught; in writeUnpackedTarball the
\* await throws inside the async 'entry' handler, whose promise nobody looks
\* at, and next() is not reached. No catch runs, nothing is logged
upload_failed(c) ==
    /\ op[c] = "writeTarball" /\ pc[c] = "writing"
    /\ inflight[c] # {}
    /\ \E e \in OtherStatus : thrown' = [thrown EXCEPT ![c] = Err("upload", e)]
    /\ inflight' = [inflight EXCEPT ![c] = {}]
    /\ pc' = [pc EXCEPT ![c] = "failed"]
    /\ StreamFrame
    /\ UNCHANGED <<result, value, error, param, archiveVars, wired, signal, destroyed,
                   opened, received, logged, through, emitted, advanced>>

\* writeUnpackedTarball: the extract stream emits the 'entry' event of the next
\* file, which it does once the file has arrived and next() was called for
\* the file before; the handler issues client.uploadStream(stream, ...), which
\* rejects at once when the signal has fired
entry_emitted(c) ==
    /\ unpacked /\ op[c] = "writeTarball" /\ pc[c] = "writing"
    /\ emitted[c] < through[c] /\ emitted[c] = advanced[c]
    /\ LET entry == param[c].val[emitted[c] + 1]
       IN  /\ emitted' = [emitted EXCEPT ![c] = @ + 1]
           /\ inflight' = [inflight EXCEPT ![c] =
                              IF signal[c] THEN @
                              ELSE @ \cup {EntryPath(arg[c], entry.name)}]
           /\ advanced' = [advanced EXCEPT ![c] = Advanced(@, "entry")]
    /\ StreamFrame
    /\ UNCHANGED <<pc, result, value, error, thrown, param, archiveVars, wired, signal,
                   destroyed, opened, received, logged, through>>

\* writeUnpackedTarball, 'entry' handler: the upload of a file is stored and
\* the await resumes: next()
entry_stored(c) ==
    /\ unpacked /\ op[c] = "writeTarball" /\ pc[c] = "writing"
    /\ \E key \in inflight[c] :
          LET archive == param[c].val
              i == CHOOSE j \in 1..Len(archive) : EntryPath(arg[c], archive[j].name) = key
          IN  /\ store' = Put(store, key, archive[i].bytes)
              /\ puts' = [puts EXCEPT ![c] = Append(@, key)]
              /\ inflight' = [inflight EXCEPT ![c] = @ \ {key}]
              /\ advanced' = [advanced EXCEPT ![c] = Advanced(@, "uploaded")]
              /\ pc' = [pc EXCEPT ![c] = IF Len(puts'[c]) = Len(archive)
                                          THEN "stored" ELSE "writing"]
    /\ StreamFrame
    /\ UNCHANGED <<result, value, error, thrown, param, listing, packed, wired, signal,
                   destroyed, opened, received, logged, through, emitted>>

\* the AbortSignal of call c fires after the call has returned its stream: the
\* registered listener destroys the stream, and the backend client aborts the
\* transfers that were given the signal ({ abortSignal: signal })
abort(c) ==
    /\ op[c] \in {"writeTarball", "readTarball"}
    /\ result[c] = "resolved" /\ pc[c] # "tick" /\ ~signal[c]
    /\ signal' = [signal EXCEPT ![c] = TRUE]
    /\ destroyed' = [destroyed EXCEPT ![c] = DestroysOnAbort(op[c], unpacked)]
    /\ inflight' = [inflight EXCEPT ![c] = {}]
    /\ StreamFrame
    /\ UNCHANGED <<pc, result, value, error, thrown, param, archiveVars, wired, opened,
                   received, logged, through, emitted, advanced>>

\* a read fails at an awaited backend call: the catch logs and rethrows
Fail(c, e) ==
    /\ logged' = [logged EXCEPT ![c] = TRUE]
    /\ thrown' = [thrown EXCEPT ![c] = e]
    /\ error' = [error EXCEPT ![c] = e]
    /\ result' = [result EXCEPT ![c] = "rejected"]
    /\ inflight' = [inflight EXCEPT ![c] = {}]
    /\ pc' = [pc EXCEPT ![c] = "returned"]

\* readPackedTarbal: client.download(...) answers. The body is wrapped, the
\* abort listener registered and the readable returned; a missing blob gives
\* status 404
download_opened(c) ==
    /\ ~unpacked /\ op[c] = "readTarball" /\ pc[c] = "downloading"
    /\ LET key == getPath(arg[c])
       IN  IF key \in DOMAIN store
           THEN /\ result' = [result EXCEPT ![c] = "resolved"]
                /\ value' = [value EXCEPT ![c] = store[key]]
                /\ pc' = [pc EXCEPT ![c] = "streaming"]
                /\ UNCHANGED <<error, thrown, logged, inflight>>
           ELSE /\ Fail(c, Err("download", NOT_FOUND))
                /\ UNCHANGED value
    /\ StreamFrame
    /\ UNCHANGED <<param, archiveVars, wired, signal, destroyed, opened, received,
                   through, emitted, advanced>>

\* a read: the listing or the download it awaits fails
read_failed(c) ==
    /\ op[c] = "readTarball" /\ pc[c] \in {"listing", "downloading"}
    /\ \E e \in OtherStatus : Fail(c, Err(pc[c], e))
    /\ StreamFrame
    /\ UNCHANGED <<value, param, archiveVars, wired, signal, destroyed, opened,
                   received, through, emitted, advanced>>

\* an entry of the pack stream of a read: its name, the bytes it has got, the
\* blob whose body is piped into it, and whether entry.end() was called
Sink(n, key, body, ended) ==
    [name |-> n, bytes |-> <<>>, key |-> key, body |-> body, closed |-> ended]

\* the number of bytes the entries have got
RECURSIVE Piped(_)
Piped(entries) ==
    IF entries = <<>> THEN 0 ELSE Len(Head(entries).bytes) + Piped(Tail(entries))

\* what the stream of a read can deliver: the body of the blob in packed mode;
\* in unpacked mode a header for each entry, and the bytes the entries got
Available(c) ==
    IF unpacked THEN Len(packed[c]) + Piped(packed[c]) ELSE Len(value[c])

\* the caller reads the next chunk from the stream it was handed; the transfer
\* of a packed read ends with the last one
stream_read(c) ==
    /\ op[c] = "readTarball" /\ received[c] /\ ~destroyed[c]
    /\ unpacked \/ inflight[c] # {}
    /\ through[c] < Available(c)
    /\ through' = [through EXCEPT ![c] = @ + 1]
    /\ inflight' = [inflight EXCEPT ![c] =
                       IF ~unpacked /\ through'[c] = Available(c) THEN {} ELSE @]
    /\ StreamFrame
    /\ UNCHANGED <<pc, result, value, error, thrown, param, archiveVars, wired, signal,
                   destroyed, opened, received, logged, emitted, advanced>>

\* readUnpackedTarbal: listBlobsFlat({ prefix }) delivers the blob names and
\* the download of the first is issued; with none, packed.finalize() and the
\* gzipped stream is returned
blobs_listed(c) ==
    /\ unpacked /\ op[c] = "readTarball" /\ pc[c] = "listing"
    /\ \E order \in Orders(Listed(store, Prefix(arg[c]))) :
          /\ listing' = [listing EXCEPT ![c] = order]
          /\ IF order = <<>>
             THEN /\ result' = [result EXCEPT ![c] = "resolved"]
                  /\ pc' = [pc EXCEPT ![c] = "streaming"]
                  /\ UNCHANGED inflight
             ELSE /\ pc' = [pc EXCEPT ![c] = "downloading"]
                  /\ inflight' = [inflight EXCEPT ![c] = {DownloadPath(Head(order))}]
                  /\ UNCHANGED result
    /\ StreamFrame
    /\ UNCHANGED <<value, error, thrown, param, store, packed, puts, wired, signal,
                   destroyed, opened, received, logged, through, emitted, advanced>>

\* readUnpackedTarbal: client.download(...) of the listed blob answers. An
\* entry named name.slice(prefix.length) is opened, blob.pipe(entry) attaches
\* the body, and entry.end() is called in the same run, before the body has
\* delivered a byte; then the next download is issued, or packed.finalize()
\* and the gzipped stream is returned. A missing blob gives status 404
blob_opened(c) ==
    /\ unpacked /\ op[c] = "readTarball" /\ pc[c] = "downloading"
    /\ LET name == Head(listing[c])
           key == DownloadPath(name)
           inPackageName == Slice(name, Len(Prefix(arg[c])))
           rest == Tail(listing[c])
       IN  IF key \in DOMAIN store
           THEN /\ packed' = [packed EXCEPT ![c] =
                                 Append(@, Sink(inPackageName, key, store[key], TRUE))]
                /\ listing' = [listing EXCEPT ![c] = rest]
                /\ IF rest = <<>>
                   THEN /\ result' = [result EXCEPT ![c] = "resolved"]
                        /\ pc' = [pc EXCEPT ![c] = "streaming"]
                        /\ UNCHANGED inflight
                   ELSE /\ inflight' = [inflight EXCEPT ![c] =
                                           @ \cup {DownloadPath(Head(rest))}]
                        /\ UNCHANGED <<pc, result>>
                /\ UNCHANGED <<error, thrown, logged>>
           ELSE /\ Fail(c, Err("download", NOT_FOUND))
                /\ UNCHANGED <<packed, listing>>
    /\ StreamFrame
    /\ UNCHANGED <<value, param, store, puts, wired, signal, destroyed, opened, received,
                   through, emitted, advanced>>

\* the error of a write into a stream that was ended
WriteAfterEnd == <<"write after end">>

\* readUnpackedTarbal: the body of a downloaded blob delivers its next byte to
\* the entry it is piped into; an entry that was ended raises the error
\* 'write after end' and the body is unpiped
blob_piped(c) ==
    /\ unpacked /\ op[c] = "readTarball"
    /\ \E i \in 1..Len(packed[c]) :
          LET entry == packed[c][i]
          IN  /\ entry.key \in inflight[c]
              /\ Len(entry.bytes) < Len(entry.body)
              /\ IF entry.closed
                 THEN /\ thrown' = [thrown EXCEPT ![c] = WriteAfterEnd]
                      /\ inflight' = [inflight EXCEPT ![c] = @ \ {entry.key}]
                      /\ UNCHANGED packed
                 ELSE /\ packed' = [packed EXCEPT ![c][i].bytes =
                                       Append(@, entry.body[Len(entry.bytes) + 1])]
                      /\ UNCHANGED <<thrown, inflight>>
    /\ StreamFrame
    /\ UNCHANGED <<pc, result, value, error, param, store, listing, puts, wired, signal,
                   destroyed, opened, received, logged, through, emitted, advanced>>

NextStream ==
    \/ \E name \in StreamedNames, archive \in Archives : writePackedTarball(name, archive)
    \/ \E name \in StreamedNames, archive \in Archives : writeUnpackedTarball(name, archive)
    \/ \E name \in StreamedNames : readPackedTarbal(name)
    \/ \E name \in StreamedNames : readUnpackedTarbal(name)
    \/ \E c \in Calls : open_emitted(c)
    \/ \E c \in Calls : stream_received(c)
    \/ \E c \in Calls : tunnel_written(c)
    \/ \E c \in Calls : upload_stored(c)
    \/ \E c \in Calls : upload_failed(c)
    \/ \E c \in Calls : entry_emitted(c)
    \/ \E c \in Calls : entry_stored(c)
    \/ \E c \in Calls : abort(c)
    \/ \E c \in Calls : download_opened(c)
    \/ \E c \in Calls : read_failed(c)
    \/ \E c \in Calls : stream_read(c)
    \/ \E c \in Calls : blobs_listed(c)
    \/ \E c \in Calls : blob_opened(c)
    \/ \E c \in Calls : blob_piped(c)

\* a handler, created in packed or in unpacked mode, of a package without
\* archives or with the archives of earlier writes
InitStream ==
    /\ InitCalls
    /\ packages = None /\ blob = None /\ log = <<>> /\ downloads = 0
    /\ InitNoSecret
    /\ InitNoManifest
    /\ listing = [c \in Calls |-> <<>>]
    /\ packed = [c \in Calls |-> <<>>]
    /\ puts = [c \in Calls |-> <<>>]
    /\ since = [c \in Calls |-> {}]
    /\ \E unp \in BOOLEAN :
          /\ unpacked = unp
          /\ store \in InitStores(unp)
    /\ InitNoStream

SpecStream == InitStream /\ [][NextStream]_vars

\* ------------------------------------------------------------------ archives, deletion
\* the names passed to deletePackage: the archives a-1.1.tgz and a-1.10.tgz,
\* and the manifest file name, with which verdaccio removes the manifest
MANIFEST_BLOB == <<"p", "a", "c", "k", "a", "g", "e", ".", "j", "s", "o", "n">>

DeletedArchives ==
    { <<"a", "-", "1", ".", "1">> \o Tgz,
      <<"a", "-", "1", ".", "1", "0">> \o Tgz }

DeletedNames == DeletedArchives \cup {MANIFEST_BLOB}

NextDelete ==
    \/ \E name \in DeletedArchives : writeTarball(name, <<Entry(<<"x">>, <<"0">>)>>)
    \/ \E name \in DeletedNames : deletePackage(name)
    \/ \E c \in Calls : entry_uploaded(c)
    \/ \E c \in Calls : entry_failed(c)
    \/ \E c \in Calls : archive_failed(c)
    \/ \E c \in Calls : deletePackage_listed(c)
    \/ \E c \in Calls : deletePackage_deleted(c)

\* the handler of a package whose manifest is stored and that has no archives
InitDelete ==
    /\ InitCalls
    /\ packages = None /\ blob = None /\ log = <<>> /\ downloads = 0
    /\ InitNoSecret
    /\ InitNoManifest
    /\ store = Put(<<>>, getPath(MANIFEST_BLOB), <<"{", "}">>)
    /\ listing = [c \in Calls |-> <<>>]
    /\ packed = [c \in Calls |-> <<>>]
    /\ puts = [c \in Calls |-> <<>>]
    /\ since = [c \in Calls |-> {}]
    /\ unpacked = TRUE
    /\ InitNoStream

SpecDelete == InitDelete /\ [][NextDelete]_vars

\* ------------------------------------------------------------------ manifest, update then save
\* A caller of the handler changes the manifest by updatePackage(name, f)
\* followed by savePackage(name, result). The call record of a caller holds
\* its updatePackage call and then its savePackage call; `manifest` keeps
\* what its updatePackage read.

\* the caller of c, whose updatePackage resolved with the updated manifest,
\* calls savePackage(name, updatedManifest), which runs up to its upload
saveUpdated(c) ==
    /\ op[c] = "updatePackage" /\ pc[c] = "returned" /\ result[c] = "resolved"
    /\ op' = [op EXCEPT ![c] = "savePackage"]
    /\ param' = [param EXCEPT ![c] = Some(value[c])]
    /\ pc' = [pc EXCEPT ![c] = FirstStep("savePackage")]
    /\ result' = [result EXCEPT ![c] = "pending"]
    /\ value' = [value EXCEPT ![c] = <<>>]
    /\ UNCHANGED <<lockVars, nsub, arg, error, thrown, names, newPackages,
                   indexVars, histVars, secretVars, manifestBlob, manifest,
                   lastSaved, archiveVars, streamVars>>

NextUpdate ==
    \/ \E t \in Transforms : updatePackage(packageName, t)
    \/ \E c \in Calls : updatePackage_read(c)
    \/ \E c \in Calls : updatePackage_readFailed(c)
    \/ \E c \in Calls : handleUpdate_fulfilled(c)
    \/ \E c \in Calls : handleUpdate_rejected(c)
    \/ \E c \in Calls : saveUpdated(c)
    \/ \E c \in Calls : savePackage_uploaded(c)
    \/ \E c \in Calls : savePackage_resumed(c)
    \/ \E c \in Calls : savePackage_failed(c)

SpecUpdate == InitManifest /\ [][NextUpdate]_vars

\* ------------------------------------------------------------------ AzStorage, both keys
\* the package index and the secret of one AzStorage: their operations share
\* the AsyncLock instance `lock` and use the keys PACKAGES_LIST_BLOB and
\* SECRET_BLOB
NextStorage ==
    \/ Next
    \/ NextSecret

\* a fresh AzStorage over a container without a secret, whose index blob is
\* missing or was stored earlier
InitStorage ==
    /\ InitCalls
    /\ packages = None
    /\ \E list \in {<<>>, <<"a">>} :
          /\ blob = IF list = <<>> THEN None ELSE Some(Stringify(list))
          /\ log = AddEvents(list)
    /\ downloads = 0
    /\ secret = <<>>
    /\ secretBlob = None
    /\ uploaded = {}
    /\ InitNoManifest
    /\ InitNoArchive
    /\ unpacked = TRUE
    /\ InitNoStream

SpecStorage == InitStorage /\ [][NextStorage]_vars

\* ------------------------------------------------------------------ claims
\* a call is inside its critical section: its callback has started and has
\* neither called done() nor ended
InCriticalSection(c) ==
    pc[c] \in {"cb", "downloading", "gotPackages", "uploading", "uploaded"}

\* the AsyncLock instance and key a call uses
LockKey(c) ==
    IF op[c] = "locked" THEN <<"locked", arg[c]>>
    ELSE <<"storage", PACKAGES_LIST_BLOB>>

\* C1: mutual exclusion per key: of the operations submitted to the mutex
\* with the same key, at most one is inside its critical section at any time,
\* also while it is suspended at backend I/O holding the lock.
C1_MutualExclusion ==
    \A c1, c2 \in Calls :
        (c1 # c2 /\ InCriticalSection(c1) /\ InCriticalSection(c2))
            => LockKey(c1) # LockKey(c2)

\* two operations on one key: one suspended inside cb(), the other kept waiting
C1_Witness ==
    \E c1, c2 \in Calls :
        /\ op[c1] = "locked" /\ op[c2] = "locked" /\ arg[c1] = arg[c2]
        /\ pc[c1] = "cb" /\ pc[c2] = "queued"

\* the calls of locked(key, ...) in submission order
Submitted(key) ==
    SelectSeq([i \in 1..nsub |-> i], LAMBDA c : op[c] = "locked" /\ arg[c] = key)

\* C2: FIFO per key: the operations submitted with one key enter their
\* critical sections in submission order; the calls that have entered are
\* always the first ones submitted, in that order.
C2_Fifo ==
    \A key \in LockKeys :
        /\ Len(entered[key]) <= Len(Submitted(key))
        /\ entered[key] = SubSeq(Submitted(key), 1, Len(entered[key]))

\* three operations on one key, two of them waiting at the same time, have all
\* entered
C2_Witness ==
    /\ nsub = 3 /\ maxPending >= 2
    /\ \E key \in LockKeys : Len(entered[key]) = 3

\* the key is held although no operation is inside its critical section
LockedKeyStuck(key) ==
    /\ Busy(lockedQueues, key)
    /\ \A c \in Calls : (op[c] = "locked" /\ arg[c] = key) => pc[c] # "cb"

\* C3: release on error: when the operation passed to locked(key, cb) raises,
\* the promise of the caller rejects with that error and the key is released,
\* so that it is not left held with nobody inside.
C3_ReleaseOnError ==
    \A c \in Calls :
        (op[c] = "locked" /\ thrown[c] # NoErr)
            => /\ result[c] = "rejected"
               /\ error[c] = thrown[c]
               /\ ~LockedKeyStuck(arg[c])

\* ------------------------------------------------------------------ index claims
\* the list of names a blob stands for (a missing blob reads as [])
IndexAt(b) == IF b.some THEN Parse(b.val) ELSE <<>>

\* the name of call c was not in the index when its callback started
NotIndexed(c) == ~Includes(IndexAt(preBlob[c]), arg[c])

\* the step in which the callback of c ends (by done() or by plain return)
Returns(c) == pc[c] # "returned" /\ pc'[c] = "returned"

IsErr(e, where) == e # NoErr /\ e[1] = where

\* the cache as getPackages() leaves it for call c: as it was, or, when it was
\* not loaded, filled with the list read from the blob
Loaded(c) ==
    IF preCache[c].some THEN preCache[c]
    ELSE IF preBlob[c].some THEN Some(Parse(preBlob[c].val))
    ELSE None

\* C4 as stated: remove(name) of a name that is not in the index leaves the
\* index blob and the in-memory cache as they were before the call, and no
\* error is delivered to the caller (read for the calls in which the backend
\* does not fail).
C4_RemoveAbsentUnchanged ==
    [][\A c \in Calls :
        (op[c] = "remove" /\ Returns(c) /\ NotIndexed(c) /\ thrown'[c] = NoErr)
            => /\ blob' = preBlob[c]
               /\ packages' = preCache[c]
               /\ result'[c] # "rejected"]_vars

\* C4 amended: remove(name) of a name that is not in the index leaves the
\* index blob as it was and never changes the cached list: the cache is as
\* before, or, if it was not loaded, holds the list read from the blob; an
\* error reaches the caller only when loading the index fails, and it is that
\* error.
C4_RemoveAbsentNoOp ==
    [][\A c \in Calls :
        (op[c] = "remove" /\ Returns(c) /\ NotIndexed(c))
            => /\ blob' = preBlob[c]
               /\ packages' = IF IsErr(thrown'[c], "download")
                               THEN preCache[c] ELSE Loaded(c)
               /\ result'[c] = "rejected"
                    => (IsErr(thrown'[c], "download") /\ error'[c] = thrown'[c])]_vars

\* remove of an absent name has returned; it found the cache empty and filled it
C4_Witness ==
    \E c \in Calls :
        /\ op[c] = "remove" /\ pc[c] = "returned" /\ NotIndexed(c)
        /\ thrown[c] = NoErr
        /\ ~preCache[c].some /\ preBlob[c].some
        /\ packages = Some(Parse(preBlob[c].val)) /\ blob = preBlob[c]

\* the index key is held although no index operation is in its critical section
IndexKeyStuck ==
    /\ Busy(queues, PACKAGES_LIST_BLOB)
    /\ \A c \in Calls : IndexCall(c) => ~InCriticalSection(c)

\* C5: after remove(name) of a name that is not in the index, the remove call
\* has completed and the index key is released (not left held with nobody
\* inside), so that later list/add/remove calls can run.
C5_RemoveAbsentReleases ==
    \A c \in Calls :
        (op[c] = "remove" /\ pc[c] = "returned" /\ NotIndexed(c))
            => (result[c] # "pending" /\ ~IndexKeyStuck)

Count(list, name) == Cardinality({i \in 1..Len(list) : list[i] = name})

\* C6: no duplicates: starting from a duplicate-free index, neither the index
\* blob nor the cache nor a list handed out by list() ever holds a name twice.
C6_NoDuplicates ==
    /\ NoDup(IndexAt(blob))
    /\ packages.some => NoDup(packages.val)
    /\ \A c \in Calls : NoDup(value[c])

\* add(name) called twice, the first one having persisted it: name is there once
C6_Witness ==
    \E c1, c2 \in Calls :
        /\ c1 < c2 /\ op[c1] = "add" /\ op[c2] = "add" /\ arg[c1] = arg[c2]
        /\ result[c1] = "resolved" /\ result[c2] = "resolved"
        /\ ~Includes(IndexAt(preBlob[c1]), arg[c1])
        /\ Count(IndexAt(blob), arg[c1]) = 1
        /\ packages.some /\ Count(packages.val, arg[c1]) = 1

\* no remove(name) has started to run
NotRemoved(name) ==
    \A d \in Calls : (op[d] = "remove" /\ arg[d] = name) => pc[d] = "queued"

\* C7: no lost index update: when two adds of distinct names have both
\* returned successfully (and no remove of these names ran), the index blob and
\* the cache hold both names; and from reading the list to persisting and
\* caching the new one, an add is alone in the critical section of the index key.
C7_NoLostUpdate ==
    /\ \A c1, c2 \in Calls :
          (/\ c1 # c2 /\ op[c1] = "add" /\ op[c2] = "add" /\ arg[c1] # arg[c2]
           /\ result[c1] = "resolved" /\ result[c2] = "resolved"
           /\ NotRemoved(arg[c1]) /\ NotRemoved(arg[c2]))
              => /\ Includes(IndexAt(blob), arg[c1])
                 /\ Includes(IndexAt(blob), arg[c2])
                 /\ packages.some
                 /\ Includes(packages.val, arg[c1])
                 /\ Includes(packages.val, arg[c2])
    /\ \A c, d \in Calls :
          (op[c] = "add" /\ InCriticalSection(c) /\ d # c /\ IndexCall(d))
              => ~InCriticalSection(d)

\* add(a) and add(b), the second submitted while the first held the key, have
\* both persisted a name that was not in the index
C7_Witness ==
    /\ nsub = 2 /\ maxPending >= 1
    /\ op[1] = "add" /\ op[2] = "add" /\ arg[1] # arg[2]
    /\ result[1] = "resolved" /\ result[2] = "resolved"
    /\ IndexAt(preBlob[1]) = <<>>
    /\ Len(IndexAt(blob)) = 2

\* C8 as stated: when a mutating index call returns successfully the cache
\* equals the content of the index blob; when the upload fails the cache holds
\* its value from before the call and the error reaches the caller.
C8_CacheBlobPreCall ==
    [][\A c \in Calls :
        (op[c] \in {"add", "remove"} /\ Returns(c))
            => /\ result'[c] = "resolved"
                    => (blob'.some /\ packages' = Some(Parse(blob'.val)))
               /\ IsErr(thrown'[c], "upload")
                    => /\ packages' = preCache[c]
                       /\ result'[c] = "rejected"
                       /\ error'[c] = thrown'[c]]_vars

\* C8 amended: when a mutating index call returns successfully the cache equals
\* the content of the index blob; when the upload fails the cache holds the
\* list the call started from (its value from before the call, or, if the
\* cache was not loaded then, the list the call read from the blob), never the
\* new list, and the error reaches the caller.
C8_CacheBlobConsistent ==
    [][\A c \in Calls :
        (op[c] \in {"add", "remove"} /\ Returns(c))
            => /\ result'[c] = "resolved"
                    => (blob'.some /\ packages' = Some(Parse(blob'.val)))
               /\ IsErr(thrown'[c], "upload")
                    => /\ packages' = Loaded(c)
                       /\ blob' = preBlob[c]
                       /\ result'[c] = "rejected"
                       /\ error'[c] = thrown'[c]]_vars

\* an add whose upload failed: the cache is the list loaded from the blob
C8_Witness ==
    \E c \in Calls :
        /\ op[c] = "add" /\ IsErr(thrown[c], "upload") /\ result[c] = "rejected"
        /\ ~preCache[c].some /\ preBlob[c].some
        /\ packages = Some(Parse(preBlob[c].val))
        /\ blob = preBlob[c]

\* the names whose last persisted change is an add
Present(l) ==
    {n \in Names : \E i \in 1..Len(l) :
        /\ l[i] = <<"add", n>>
        /\ \A j \in (i + 1)..Len(l) : l[j][2] # n}

\* the present names in the order of their first / of their latest add
FirstAddOrder(l) ==
    LET firsts == SelectSeq([i \in 1..Len(l) |-> i], LAMBDA i :
                      /\ l[i][1] = "add" /\ l[i][2] \in Present(l)
                      /\ \A j \in 1..(i - 1) : l[j] # l[i])
    IN  [k \in 1..Len(firsts) |-> l[firsts[k]][2]]

LatestAddOrder(l) ==
    LET lasts == SelectSeq([i \in 1..Len(l) |-> i], LAMBDA i :
                     /\ l[i][1] = "add" /\ l[i][2] \in Present(l)
                     /\ \A j \in (i + 1)..Len(l) : l[j] # l[i])
    IN  [k \in 1..Len(lasts) |-> l[lasts[k]][2]]

\* C9 as stated: list() returns the names in the order of their first
\* successful add, removed names dropped.
C9_FirstAddOrder ==
    [][\A c \in Calls :
        (op[c] = "get" /\ Returns(c) /\ result'[c] = "resolved")
            => value'[c] = FirstAddOrder(log')]_vars

\* C9 amended: list() returns the names that are in the index in the order of
\* the successful add that put each of them there (its latest one: a name
\* that was removed and added again moves to the end); adding a present name
\* again changes nothing, so add(a), add(b), add(a) gives [a, b].
C9_ListOrder ==
    [][\A c \in Calls :
        (op[c] = "get" /\ Returns(c) /\ result'[c] = "resolved")
            => value'[c] = LatestAddOrder(log')]_vars

\* from an empty index, add(a) and add(b) persisted, then list() gave [a, b]
C9_Witness ==
    /\ IndexAt(preBlob[1]) = <<>>
    /\ op[1] = "add" /\ op[2] = "add" /\ op[3] = "get"
    /\ result[3] = "resolved" /\ Len(value[3]) = 2
    /\ value[3] = <<arg[1], arg[2]>>

\* C10: list() treats a missing index blob as the empty list and does not
\* raise; any other failure of the download rejects the call with that error;
\* the blob is downloaded only while the cache is empty, a filled cache stays
\* filled, and a list() that finds it filled returns the cached list.
C10_List ==
    [][/\ \A c \in Calls :
            (op[c] = "get" /\ Returns(c))
                => /\ (~preCache[c].some /\ ~preBlob[c].some /\ thrown'[c] = NoErr)
                        => (result'[c] = "resolved" /\ value'[c] = <<>>)
                   /\ thrown'[c] # NoErr
                        => /\ IsErr(thrown'[c], "download")
                           /\ result'[c] = "rejected"
                           /\ error'[c] = thrown'[c]
                   /\ preCache[c].some
                        => (result'[c] = "resolved" /\ value'[c] = preCache[c].val)
       /\ downloads' # downloads => ~packages.some
       /\ packages.some => packages'.some]_vars

\* a list() on a missing blob resolved with [], and a later list() found the
\* cache filled by an add and resolved from it
C10_Witness ==
    \E c, d \in Calls :
        /\ op[c] = "get" /\ ~preCache[c].some /\ ~preBlob[c].some
        /\ result[c] = "resolved" /\ value[c] = <<>>
        /\ op[d] = "get" /\ preCache[d].some /\ result[d] = "resolved"
        /\ value[d] = preCache[d].val /\ downloads = 2

\* ------------------------------------------------------------------ secret claims
\* no setSecret was called before call c
NoSetBefore(c) == \A e \in 1..(c - 1) : op[e] # "setSecret"

\* getSecret call d has downloaded a non-empty secret from the blob
DownloadedSecret(d) ==
    /\ op[d] = "getSecret" /\ result[d] = "resolved"
    /\ backend[d] = <<"exists", "download">>
    /\ value[d] # <<>>

\* C11: the secret is loaded once and cached: after a getSecret() has
\* downloaded a non-empty secret from the blob, every later getSecret() of the
\* adapter returns it from the cache without any backend call (no existence
\* check, no download).
C11_SecretLoadedOnce ==
    \A c, d \in Calls :
        (d < c /\ DownloadedSecret(d) /\ op[c] = "getSecret" /\ NoSetBefore(c))
            => /\ backend[c] = <<>>
               /\ result[c] = "resolved" => value[c] = value[d]

\* C12: setSecret(s) puts s into the cache only after its upload succeeded:
\* a non-empty cache is always a secret whose upload completed; when
\* setSecret(s) returns successfully the cache and the blob both hold s; when
\* the upload fails the cache is as it was before the call.
C12_CacheAfterUpload ==
    [][/\ secret' # <<>> => secret' \in uploaded'
       /\ \A c \in Calls :
            (op[c] = "setSecret" /\ Returns(c))
                => /\ result'[c] = "resolved"
                        => /\ secret' = arg[c]
                           /\ secretBlob'.some /\ toString(secretBlob'.val) = arg[c]
                   /\ thrown'[c] # NoErr
                        => /\ IsErr(thrown'[c], "upload")
                           /\ secret' = preCache[c].val]_vars

\* setSecret(s) succeeded, and a later setSecret of another secret failed at
\* its upload: the cache still holds s
C12_Witness ==
    \E c, d \in Calls :
        /\ op[c] = "setSecret" /\ result[c] = "resolved" /\ arg[c] # <<>>
        /\ op[d] = "setSecret" /\ IsErr(thrown[d], "upload") /\ arg[d] # arg[c]
        /\ preCache[d] = Some(arg[c]) /\ secret = arg[c]
        /\ secretBlob = Some(Utf8(arg[c]))

\* the secret key is held although no secret call is in its critical section
SecretKeyStuck ==
    /\ Busy(queues, SECRET_BLOB)
    /\ \A c \in Calls :
          SecretCall(c) => pc[c] \notin {"exists", "downloading", "uploading", "uploaded"}

\* C13: when a backend call inside a secret operation fails (the upload of
\* setSecret, the existence check or the download of getSecret), the error is
\* delivered to the caller and the secret key is released (not left held with
\* nobody inside), so that later secret calls can run.
C13_SecretReleaseOnError ==
    \A c \in Calls :
        (SecretCall(c) /\ thrown[c] # NoErr)
            => /\ result[c] = "rejected"
               /\ error[c] = thrown[c]
               /\ ~SecretKeyStuck

\* ------------------------------------------------------------------ manifest claims
\* the manifest that call c read from the blob
ReadBy(c) == ParseManifest(toString(preBlob[c].val))

\* C14: updatePackage(name, handleUpdate) returns handleUpdate applied to the
\* manifest stored when it reads, and persists nothing: no step of the call
\* changes the manifest blob, whether handleUpdate fulfils or rejects.
C14_UpdateNotPersisted ==
    [][\A c \in Calls :
        /\ (op'[c] = "updatePackage" /\ pc'[c] # pc[c])
              => manifestBlob' = manifestBlob
        /\ (op[c] = "updatePackage" /\ Returns(c) /\ result'[c] = "resolved")
              => /\ Readable(preBlob[c])
                 /\ value'[c] = Apply(param[c].val, ReadBy(c))]_vars

\* an updatePackage returned a manifest that differs from the stored one, which
\* is still in the blob, and another one failed in handleUpdate
C14_Witness ==
    \E c, d \in Calls :
        /\ op[c] = "updatePackage" /\ result[c] = "resolved"
        /\ value[c] # ReadBy(c) /\ manifestBlob = preBlob[c]
        /\ op[d] = "updatePackage" /\ IsErr(thrown[d], "handleUpdate")
        /\ manifestBlob = preBlob[d]

\* call c is between the start of its read and the end of handleUpdate
InReadAndTransform(c) ==
    op[c] = "updatePackage" /\ pc[c] \in {"downloading", "transforming"}

\* C15: updatePackage reads and transforms inside the mutex keyed by the name:
\* two updatePackage calls with the same name are never both in their
\* read-and-transform section, and an error from the read or from handleUpdate
\* reaches the caller.
C15_UpdateExclusive ==
    /\ \A c, d \in Calls :
          (c # d /\ InReadAndTransform(c) /\ InReadAndTransform(d))
              => arg[c] # arg[d]
    /\ \A c \in Calls :
          (op[c] = "updatePackage" /\ thrown[c] # NoErr)
              => (result[c] = "rejected" /\ error[c] = thrown[c])

\* the error of a download that found no blob
MissingBlob(e) == e = Err("download", NOT_FOUND)

\* the error carries code 404
HasCode(e) == Len(e) = 3 /\ e[3] = NOT_FOUND

\* C16: readPackage of a package whose manifest blob does not exist raises the
\* error of the download with code 404 put on it; any other failure is raised
\* unchanged, without that code; readPackage never returns a manifest while
\* the blob is missing.
C16_NotFoundMapping ==
    [][\A c \in Calls :
        (op[c] = "readPackage" /\ Returns(c))
            => /\ ~manifestBlob.some
                    => /\ result'[c] = "rejected"
                       /\ MissingBlob(thrown'[c]) \/ IsErr(thrown'[c], "download")
               /\ MissingBlob(thrown'[c])
                    => /\ ~manifestBlob.some
                       /\ result'[c] = "rejected"
                       /\ error'[c] = <<"download", NOT_FOUND, NOT_FOUND>>
               /\ (thrown'[c] # NoErr /\ ~MissingBlob(thrown'[c]))
                    => /\ result'[c] = "rejected"
                       /\ error'[c] = thrown'[c]
                       /\ ~HasCode(error'[c])]_vars

\* a readPackage of a missing manifest was rejected with code 404, and one
\* whose download failed otherwise with that failure as it was
C16_Witness ==
    \E c, d \in Calls :
        /\ op[c] = "readPackage" /\ result[c] = "rejected" /\ ~preBlob[c].some
        /\ MissingBlob(thrown[c]) /\ HasCode(error[c])
        /\ op[d] = "readPackage" /\ result[d] = "rejected"
        /\ thrown[d] \in {Err("download", e) : e \in OtherStatus}
        /\ error[d] = thrown[d]

\* a createPackage or savePackage of this manifest has returned successfully
SaveSucceeded(saved) ==
    \E d \in Calls : SaveCall(d) /\ result[d] = "resolved" /\ param[d] = saved

\* the backend call of call c failed
BackendFailed(e) == IsErr(e, "download") \/ IsErr(e, "exists")

\* C17: manifest round trip: after a createPackage or savePackage of m has
\* succeeded, and until the next save is stored, hasPackage returns true and
\* readPackage returns a manifest equal to m (unless the backend call of the
\* read itself fails).
C17_ManifestRoundTrip ==
    [][\A c \in Calls :
        (Returns(c) /\ lastSaved.some /\ SaveSucceeded(lastSaved)
                    /\ ~BackendFailed(thrown'[c]))
            => /\ op[c] = "hasPackage"
                    => (result'[c] = "resolved" /\ value'[c] = TRUE)
               /\ op[c] = "readPackage"
                    => (result'[c] = "resolved" /\ value'[c] = lastSaved.val)]_vars

\* ------------------------------------------------------------------ archive claims
\* <package>/<archivePrefix(archiveName)>/<entryName>
BlobKey(tarballName, entryName) ==
    packageName \o <<"/">> \o getDirName(tarballName) \o <<"/">> \o entryName

\* the blob names of the files of an archive
FileKeys(tarballName, archive) ==
    {BlobKey(tarballName, archive[i].name) : i \in 1..Len(archive)}

\* write call d has uploaded every entry of its archive
Written(d) == op[d] = "writeTarball" /\ pc[d] = "returned"

\* the blobs of the archive that call d wrote are all in the container
Intact(d) ==
    \A i \in 1..Len(param[d].val) :
        LET key == BlobKey(arg[d], param[d].val[i].name)
        IN  key \in DOMAIN store /\ store[key] = param[d].val[i].bytes

\* C18: unpacked-mode life cycle: a write of an archive with n files uploads
\* exactly n blobs, one per file, at <package>/<dirName>/<entryName>, and
\* changes no other blob; hasTarball is true while the blobs of a written
\* archive of that name are stored and false when no blob is under its
\* prefix; a deletePackage that returns has removed every blob under the
\* prefix, those n included, except blobs uploaded during the deletion.
C18_ArchiveLifeCycle ==
    [][\A c \in Calls :
        /\ puts'[c] # puts[c]
              => LET i == Len(puts'[c])
                     entry == param[c].val[i]
                     key == BlobKey(arg[c], entry.name)
                 IN  /\ puts'[c] = Append(puts[c], key)
                     /\ DOMAIN store' = DOMAIN store \cup {key}
                     /\ store'[key] = entry.bytes
                     /\ \A k \in DOMAIN store \ {key} : store'[k] = store[k]
        /\ (op[c] = "writeTarball" /\ Returns(c))
              => /\ Len(puts'[c]) = Len(param[c].val)
                 /\ Range(puts'[c]) = FileKeys(arg[c], param[c].val)
                 /\ Cardinality(Range(puts'[c])) = Len(param[c].val)
        /\ (op[c] = "hasTarball" /\ Returns(c) /\ result'[c] = "resolved")
              => /\ (\E d \in Calls : Written(d) /\ arg[d] = arg[c] /\ Intact(d))
                      => value'[c] = TRUE
                 /\ (\A k \in DOMAIN store :
                          ~StartsWith(k, packageName \o <<"/">> \o getDirName(arg[c])))
                      => value'[c] = FALSE
        /\ (op[c] = "deletePackage" /\ Returns(c) /\ result'[c] = "resolved")
              => \A k \in DOMAIN store' :
                     StartsWith(k, packageName \o <<"/">> \o getDirName(arg[c]))
                         => k \in since[c]]_vars

\* an archive of two files was written, hasTarball of its name gave true, and
\* deletePackage of its name removed every blob
C18_Witness ==
    \E w, h, d \in Calls :
        /\ w < h /\ h < d
        /\ Written(w) /\ Len(param[w].val) = 2 /\ Cardinality(Range(puts[w])) = 2
        /\ op[h] = "hasTarball" /\ arg[h] = arg[w]
        /\ result[h] = "resolved" /\ value[h] = TRUE
        /\ op[d] = "deletePackage" /\ arg[d] = arg[w]
        /\ result[d] = "resolved" /\ Len(listing[d]) = 0 /\ pc[d] = "returned"
        /\ store = <<>>

\* the files of an archive: names and contents, without their order
Files(archive) == Range(archive)

\* the error is a failure of the backend itself
Outage(e) == e # NoErr /\ e[2] \in OtherStatus

\* C19: unpacked-mode round trip: when an archive has been written and its
\* blobs are what is stored under its prefix, readTarball of the same name
\* gives an archive whose files (names and contents) are those written,
\* whatever their order (unless the backend fails).
C19_UnpackedRoundTrip ==
    [][\A c, d \in Calls :
        (/\ op[c] = "readTarball" /\ Returns(c) /\ ~Outage(thrown'[c])
         /\ Written(d) /\ arg[d] = arg[c] /\ Intact(d)
         /\ Listed(store, Prefix(arg[c])) = FileKeys(arg[d], param[d].val)
         /\ \A x \in Calls \ {c} : pc[x] \in {"idle", "returned", "stalled"})
            => /\ result'[c] = "resolved"
               /\ Files(value'[c]) = Files(param[d].val)]_vars

\* C20: getDirName is collision-free within a package: two distinct archive
\* names give different directory names, so that the blobs written for two
\* different archives never share a name.
C20_DirNameCollisionFree ==
    \A c, d \in Calls :
        (/\ op[c] = "writeTarball" /\ op[d] = "writeTarball"
         /\ arg[c] # arg[d] /\ puts[c] # <<>> /\ puts[d] # <<>>)
            => /\ getDirName(arg[c]) # getDirName(arg[d])
               /\ Range(puts[c]) \cap Range(puts[d]) = {}

\* ------------------------------------------------------------------ claims on streams
\* a streaming call
Streams(c) == op[c] \in {"writeTarball", "readTarball"}

\* C21: cancellation tears the stream down: once the AbortSignal of a
\* readTarball or writeTarball call has fired after the call returned its
\* stream, in packed and in unpacked mode, that stream is destroyed, no
\* transfer of the call is open at the backend, and no further chunk passes
\* through the stream.
C21_CancellationTearsDown ==
    /\ [](\A c \in Calls :
            (Streams(c) /\ signal[c]) => (destroyed[c] /\ inflight[c] = {}))
    /\ [][\A c \in Calls :
            (Streams(c) /\ signal[c]) => through'[c] = through[c]]_vars

\* the failure of a backend call: an error with a status
BackendFailure(e) == Len(e) = 2 /\ e[1] \in {"upload", "download", "listing"}

\* C22: archive I/O failures reach the caller: when a backend call of an
\* archive read or write fails (the download being opened, the upload of a
\* packed write, the upload of an entry of an unpacked write), the failure
\* is logged and the call rejects with that same error. (No statement of the
\* handler emits an error on a stream it has returned, so the rejection is
\* the only way a failure can reach the caller.)
C22_ArchiveFailuresReachCaller ==
    \A c \in Calls :
        (Streams(c) /\ BackendFailure(thrown[c]))
            => /\ logged[c]
               /\ result[c] = "rejected"
               /\ error[c] = thrown[c]

\* ------------------------------------------------------------------ claims on keys and manifests
\* the key a call of AzStorage passes to lock.acquire
StorageKey(c) == IF SecretCall(c) THEN SECRET_BLOB ELSE PACKAGES_LIST_BLOB

\* the callback of call c has started and has not called done(): it is
\* suspended at backend I/O, or it ended without done() and holds its key
\* for ever
HoldsKey(c) ==
    /\ op[c] # "none" /\ pc[c] # "queued"
    /\ result[c] = "pending"

\* C23: distinct keys are independent: an operation waits only behind an
\* operation of its own key. Whenever a call is kept waiting, another call
\* with the same key holds that key; what happens on the other key, also a
\* key that is held for ever, never keeps it out of its critical section.
C23_DistinctKeysIndependent ==
    \A c \in Calls :
        pc[c] = "queued"
            => \E d \in Calls :
                  d # c /\ StorageKey(d) = StorageKey(c) /\ HoldsKey(d)

\* the index key is held for ever by a remove() whose callback ended without
\* done(), and a secret operation called after that has entered its critical
\* section and finished
C23_Witness ==
    \E c, d \in Calls :
        /\ c < d
        /\ op[c] = "remove" /\ pc[c] = "returned" /\ result[c] = "pending"
        /\ Busy(queues, PACKAGES_LIST_BLOB)
        /\ op[d] = "setSecret" /\ result[d] = "resolved"
        /\ d \in Range(entered[SECRET_BLOB])

\* the caller of c has updated and saved: its savePackage was stored
SavedUpdate(c) ==
    op[c] = "savePackage" /\ manifest[c].some /\ pc[c] \in {"uploaded", "returned"}
        /\ result[c] # "rejected"

\* the transformations that the caller of c may have passed: those that turn
\* what its updatePackage read into what it saved
Passed(c) == {t \in Transforms : Apply(t, manifest[c].val) = param[c].val}

\* what is stored is the transformation of d applied to what c saved
Serial(c, d) == \E t \in Passed(d) : lastSaved = Some(Apply(t, param[c].val))

\* C24: lost-update freedom for manifests: when two callers have each done
\* updatePackage(name, f) followed by savePackage(name, result) on the same
\* package, the manifest finally stored reflects both transformations: it is
\* what the transformation of one of them makes of what the other saved.
C24_NoLostManifestUpdate ==
    (nsub = 2 /\ SavedUpdate(1) /\ SavedUpdate(2))
        => Serial(1, 2) \/ Serial(2, 1)

\* ------------------------------------------------------------------ claims on the order of stream events
\* C25: write handshake order: in both modes the 'open' event is emitted on
\* the tunnel of a write in a later run than the one that attached the
\* destination (issued the upload in packed mode, piped the gunzip and
\* extract streams in unpacked mode) and returned the tunnel, and it is
\* emitted exactly once: not before, and before anything else happens to
\* the write.
C25_WriteHandshake ==
    /\ [](\A c \in Calls :
            (op[c] = "writeTarball" /\ pc[c] \notin {"idle", "tick"}) => opened[c] = 1)
    /\ [][\A c \in Calls :
            opened'[c] # opened[c]
                => /\ opened[c] = 0 /\ opened'[c] = 1
                   /\ wired[c] /\ (unpacked \/ getPath(arg[c]) \in inflight[c])
                   /\ result[c] = "resolved"]_vars

\* a packed write whose tunnel was opened, handed over and written, and whose
\* blob is stored
C25_Witness ==
    \E c \in Calls :
        /\ ~unpacked /\ op[c] = "writeTarball" /\ pc[c] = "stored"
        /\ opened[c] = 1 /\ received[c]
        /\ getPath(arg[c]) \in DOMAIN store

\* C26: an unpacked write processes its entries strictly one at a time: at
\* most one entry upload of a write is in flight at any moment, and next() is
\* called for an entry, which lets the extract stream deliver the next one,
\* only after the upload of that entry has completed.
C26_EntriesOneAtATime ==
    \A c \in Calls :
        (unpacked /\ op[c] = "writeTarball")
            => /\ Cardinality(inflight[c]) <= 1
               /\ advanced[c] <= Len(puts[c])
               /\ emitted[c] <= Len(puts[c]) + 1

\* an unpacked write of two files, both uploaded one after the other
C26_Witness ==
    \E c \in Calls :
        /\ unpacked /\ op[c] = "writeTarball"
        /\ Len(param[c].val) = 2 /\ Len(puts[c]) = 2
        /\ emitted[c] = 2 /\ advanced[c] = 2

\* C27: an unpacked read adds entries in order relative to their data: an
\* entry of the pack stream is closed only after the bytes of its blob have
\* been piped into it in full, an entry is opened only after the one before
\* it is closed, and the pack stream is finalized (the stream returned) only
\* after every entry has got all its data.
C27_EntriesClosedAfterData ==
    \A c \in Calls :
        (unpacked /\ op[c] = "readTarball")
            => /\ \A i \in 1..Len(packed[c]) :
                     packed[c][i].closed => packed[c][i].bytes = packed[c][i].body
               /\ \A i \in 1..(Len(packed[c]) - 1) : packed[c][i].closed
               /\ pc[c] = "streaming"
                     => \A i \in 1..Len(packed[c]) :
                           packed[c][i].bytes = packed[c][i].body

\* ------------------------------------------------------------------ claims on deletion
\* the blobs written for the name passed to deletePackage: for an archive in
\* unpacked mode those that its writeTarball calls uploaded, else the single
\* blob <package>/<name>
WrittenFor(name) ==
    IF storeUnpacked /\ EndsWithTgz(name)
    THEN UNION {Range(puts[w]) : w \in {x \in Calls : op[x] = "writeTarball"
                                                     /\ arg[x] = name}}
    ELSE {getPath(name)}

\* C28: deleting an archive affects only that archive: every blob that a
\* deletePackage(name) call removes was written for that name; the blobs of
\* the other archives of the package and its manifest stay in place, and for
\* a name that does not end in .tgz only the blob <package>/<name> goes.
C28_DeleteOnlyThatArchive ==
    [][\A c \in Calls :
          (op[c] = "deletePackage" /\ pc[c] = "deleting" /\ listing'[c] # listing[c])
              => (DOMAIN store \ DOMAIN store') \subseteq WrittenFor(arg[c])]_vars

====
